---- MODULE Spec2Model ----
(***************************************************************************)
(* Model of the Kings shot-chart data loader (src/src/data/data_loader.py). *)
(*                                                                         *)
(* A DataFrame is a record [columns, index, rows]: the ordered column      *)
(* names, the row labels and, per row, a function from column name to      *)
(* cell.  A nullable cell is None (<<>>) or Some(v) (<<v>>).  A Python str  *)
(* is a sequence of one-character strings; a float cell holds its value in *)
(* tenths (25.0 is 250).                                                   *)
(***************************************************************************)
EXTENDS Integers, Sequences, FiniteSets, TLC

VARIABLES
    table,   \* the caller's DataFrame (the argument df)
    file,    \* the file at the path given to load_shots_csv
    call,    \* the operation last called, with its arguments
    ret,     \* what that call returned or raised
    client,  \* the NBAApiClient: its attributes
    cache,   \* the files of the client's cache directory, by name
    sent,    \* the requests sent to the remote API so far: how each was answered
    history, \* the calls made on the client so far, oldest first
    static,  \* nba_api.stats.static: the player and team reference lists
    chart,   \* the ShotChart: its _fig and _ax
    figures, \* the matplotlib figures that exist or have existed
    disk,    \* the place a chart is saved to: the directory and the image file
    clock    \* time.time(), in seconds: read by the client's throttle alone

vars == <<table, file, call, ret, client, cache, sent, history, static,
          chart, figures, disk, clock>>
\* The state of the API client and of what it talks to.
api == <<client, cache, sent, history, static, clock>>
\* The state of the chart and of matplotlib.
charting == <<chart, figures, disk>>
\* What a call of the data loader reads and never writes.
inputs == <<table, file, api, charting>>

(***************************************************************************)
(* Bounds of the model.                                                    *)
(***************************************************************************)
MaxRows == 2          \* rows of an input table
MaxPad == 1           \* whitespace characters around a shot_made literal

(***************************************************************************)
(* Python values.                                                          *)
(***************************************************************************)
None == <<>>
Some(v) == <<v>>
IsNone(x) == x = <<>>
Val(x) == x[1]

Returned(v) == [kind |-> "return", value |-> v]
Raised(e, m) == [kind |-> "raise", exc |-> e, msg |-> m]
NoCall == [op |-> "none"]
NoRet == [kind |-> "none"]
\* No file is involved.
NoFile == [exists |-> FALSE]
\* The reference lists, empty.
NoStatic == [players |-> <<>>, teams |-> <<>>]
\* No API client has been constructed.
NoApiClient ==
    /\ client = None
    /\ cache = {}
    /\ sent = <<>>
    /\ history = <<>>
    /\ static = NoStatic
    /\ clock = 0
\* No chart has been constructed and no figure opened.
NoDisk == [dir |-> FALSE, image |-> <<>>]
NoShotChart ==
    /\ chart = None
    /\ figures = <<>>
    /\ disk = NoDisk

UpperChars == <<"A","B","C","D","E","F","G","H","I","J","K","L","M",
                "N","O","P","Q","R","S","T","U","V","W","X","Y","Z">>
LowerChars == <<"a","b","c","d","e","f","g","h","i","j","k","l","m",
                "n","o","p","q","r","s","t","u","v","w","x","y","z">>

\* str.lower() and str.upper(), character by character (ASCII).
LowerOf == [c \in {UpperChars[i] : i \in 1..Len(UpperChars)} |->
               LowerChars[CHOOSE i \in 1..Len(UpperChars) : UpperChars[i] = c]]
UpperOf == [c \in {LowerChars[i] : i \in 1..Len(LowerChars)} |->
               UpperChars[CHOOSE i \in 1..Len(LowerChars) : LowerChars[i] = c]]
LowerChar(c) == IF c \in DOMAIN LowerOf THEN LowerOf[c] ELSE c
UpperChar(c) == IF c \in DOMAIN UpperOf THEN UpperOf[c] ELSE c
StrLower(s) == [i \in 1..Len(s) |-> LowerChar(s[i])]
StrUpper(s) == [i \in 1..Len(s) |-> UpperChar(s[i])]

\* `needle in haystack`: plain substring containment.
IsSubstring(needle, hay) ==
    \E off \in 0..(Len(hay) - Len(needle)) :
        \A k \in 1..Len(needle) : hay[off + k] = needle[k]

(***************************************************************************)
(* Series.str.contains(pat, case=False, na=False).  pandas' regex          *)
(* parameter defaults to True, so pat is compiled with re.IGNORECASE and   *)
(* searched for.  The model covers the patterns made of literal            *)
(* characters, "." (any character but a newline) and "(" (which, with no   *)
(* ")" in the alphabet, never closes: re.compile raises re.error).         *)
(***************************************************************************)
ReCompileFails(pat) == \E k \in 1..Len(pat) : pat[k] = "("
ReCharMatches(p, c) ==
    IF p = "." THEN c # "\n" ELSE LowerChar(p) = LowerChar(c)
ReSearchIgnoreCase(pat, s) ==
    \E off \in 0..(Len(s) - Len(pat)) :
        \A k \in 1..Len(pat) : ReCharMatches(pat[k], s[off + k])
\* One cell of the boolean mask; a null cell gives na=False.
StrContainsCell(cell, pat) ==
    IF IsNone(cell) THEN FALSE ELSE ReSearchIgnoreCase(pat, Val(cell))

(***************************************************************************)
(* DataFrames.                                                             *)
(***************************************************************************)
REQUIRED_COLUMNS ==
    <<"game_id", "player_id", "player_name", "team", "period",
      "minutes_remaining", "seconds_remaining", "shot_made", "shot_type",
      "shot_distance", "loc_x", "loc_y", "shot_zone", "action_type">>

SeqToSet(s) == {s[i] : i \in 1..Len(s)}

RECURSIVE KeepPositions(_, _, _)
\* The subsequence of s at the positions i with keep[i], in order.
KeepPositions(s, keep, i) ==
    IF i > Len(s) THEN <<>>
    ELSE IF keep[i] THEN <<s[i]>> \o KeepPositions(s, keep, i + 1)
    ELSE KeepPositions(s, keep, i + 1)

\* df[mask] with the mask looked up by row label instead of by position.
BoolIndexByLabel(df, mask) ==
    LET keep == [i \in 1..Len(df.rows) |->
                    df.index[i] + 1 <= Len(mask) /\ mask[df.index[i] + 1]]
    IN  [columns |-> df.columns,
         index |-> KeepPositions(df.index, keep, 1),
         rows |-> KeepPositions(df.rows, keep, 1)]

\* df[mask]: boolean indexing keeps labels and cells of the selected rows.
BoolIndex(df, mask) ==
    [columns |-> df.columns,
     index |-> KeepPositions(df.index, mask, 1),
     rows |-> KeepPositions(df.rows, mask, 1)]

Length(df) == Len(df.rows)
\* df[col]: the Series of one column's cells.
Column(df, col) == [i \in 1..Length(df) |-> df.rows[i][col]]

\* Series == scalar: a null cell compares False.
CellEq(cell, v) == ~IsNone(cell) /\ Val(cell) = v

(***************************************************************************)
(* str(x) for a str or an int argument.  Arguments that may be either are   *)
(* tagged: [t |-> "str", v |-> chars] or [t |-> "int", n |-> number].       *)
(***************************************************************************)
DigitChars == <<"0","1","2","3","4","5","6","7","8","9">>
RECURSIVE NatToStr(_)
NatToStr(n) ==
    IF n < 10 THEN <<DigitChars[n + 1]>>
    ELSE NatToStr(n \div 10) \o <<DigitChars[(n % 10) + 1]>>
PyStr(x) ==
    IF x.t = "str" THEN x.v
    ELSE IF x.n < 0 THEN <<"-">> \o NatToStr(-x.n) ELSE NatToStr(x.n)
PyString(chars) == [t |-> "str", v |-> chars]
PyInt(n) == [t |-> "int", n |-> n]

(***************************************************************************)
(* filter_shots: the seven optional criteria, applied one after another    *)
(* to a copy of df.                                                        *)
(***************************************************************************)
ByPlayerName(df, player_name) ==
    BoolIndex(df, [i \in 1..Length(df) |->
                     StrContainsCell(Column(df, "player_name")[i], player_name)])
ByPlayerId(df, player_id) ==
    BoolIndex(df, [i \in 1..Length(df) |->
                     CellEq(Column(df, "player_id")[i], player_id)])
ByGameId(df, game_id) ==
    BoolIndex(df, [i \in 1..Length(df) |->
                     CellEq(Column(df, "game_id")[i], PyStr(game_id))])
ByTeam(df, team) ==
    BoolIndex(df, [i \in 1..Length(df) |->
                     /\ ~IsNone(Column(df, "team")[i])
                     /\ StrUpper(Val(Column(df, "team")[i])) = StrUpper(team)])
ByPeriod(df, period) ==
    BoolIndex(df, [i \in 1..Length(df) |->
                     CellEq(Column(df, "period")[i], period)])
ByShotType(df, shot_type) ==
    BoolIndex(df, [i \in 1..Length(df) |->
                     StrContainsCell(Column(df, "shot_type")[i], shot_type)])
\* filtered['shot_made'] == made_only, for one cell.
ShotMadeNullAsMiss(cell, made_only) ==
    IF made_only THEN cell = Some(TRUE) ELSE cell # Some(TRUE)
ShotMadeMatches(cell, made_only) == CellEq(cell, made_only)
ByMadeOnly(df, made_only) ==
    BoolIndex(df, [i \in 1..Length(df) |->
                     ShotMadeMatches(Column(df, "shot_made")[i], made_only)])

NoCriteria ==
    [player_name |-> None, player_id |-> None, game_id |-> None, team |-> None,
     period |-> None, shot_type |-> None, made_only |-> None]

filter_shots(df, c) ==
    LET f0 == df
        f1 == IF IsNone(c.player_name) THEN f0 ELSE ByPlayerName(f0, Val(c.player_name))
        f2 == IF IsNone(c.player_id) THEN f1 ELSE ByPlayerId(f1, Val(c.player_id))
        f3 == IF IsNone(c.game_id) THEN f2 ELSE ByGameId(f2, Val(c.game_id))
        f4 == IF IsNone(c.team) THEN f3 ELSE ByTeam(f3, Val(c.team))
        f5 == IF IsNone(c.period) THEN f4 ELSE ByPeriod(f4, Val(c.period))
        f6 == IF IsNone(c.shot_type) THEN f5 ELSE ByShotType(f5, Val(c.shot_type))
        f7 == IF IsNone(c.made_only) THEN f6 ELSE ByMadeOnly(f6, Val(c.made_only))
    IN  IF ~IsNone(c.player_name) /\ ReCompileFails(Val(c.player_name))
        THEN Raised("re.error", Val(c.player_name))
        ELSE IF ~IsNone(c.shot_type) /\ ReCompileFails(Val(c.shot_type))
        THEN Raised("re.error", Val(c.shot_type))
        ELSE Returned(f7)

(***************************************************************************)
(* Tables of normalized shot records the filter is exercised on.           *)
(***************************************************************************)
Fox == <<"F","o","x">>
PdotJ == <<"P",".","J">>
Paj == <<"P","a","j">>
SAC == <<"S","A","C">>
SacLower == <<"s","a","c">>
LAL == <<"L","A","L">>
SA == <<"S","A">>
Two == <<"2","P","T">>
Three == <<"3","P","T">>
ThreeLower == <<"3","p","t">>
Game21 == <<"2","1">>
Game22 == <<"2","2">>
Jump == <<"J","u","m","p">>
Zone == <<"M","i","d">>

BaseRow ==
    [game_id |-> Some(Game21), player_id |-> Some(1), player_name |-> Some(Fox),
     team |-> Some(SAC), period |-> Some(1), minutes_remaining |-> Some(5),
     seconds_remaining |-> Some(30), shot_made |-> Some(TRUE),
     shot_type |-> Some(ThreeLower), shot_distance |-> Some(250),
     loc_x |-> Some(0), loc_y |-> Some(2500), shot_zone |-> Some(Zone),
     action_type |-> Some(Jump)]

FilterRows ==
    { BaseRow,
      [BaseRow EXCEPT !.player_name = Some(PdotJ), !.player_id = Some(2),
                      !.team = Some(SacLower), !.period = Some(2),
                      !.shot_type = Some(Two), !.shot_made = Some(FALSE)],
      [BaseRow EXCEPT !.player_name = Some(Paj), !.game_id = Some(Game22),
                      !.team = Some(LAL), !.shot_type = Some(Three),
                      !.shot_made = None],
      [BaseRow EXCEPT !.player_name = None, !.player_id = None,
                      !.game_id = Some(Game22), !.team = None, !.period = None,
                      !.shot_type = None],
      [BaseRow EXCEPT !.player_id = Some(2), !.team = Some(SA),
                      !.period = Some(2), !.shot_type = Some(Two),
                      !.shot_made = Some(FALSE)],
      [BaseRow EXCEPT !.player_name = Some(Paj), !.player_id = None,
                      !.shot_type = Some(Three), !.shot_made = None,
                      !.period = Some(2)] }

\* Every sequence over S of length at most n.
SeqsUpTo(S, n) == UNION {[1..k -> S] : k \in 0..n}
\* A freshly built DataFrame: RangeIndex labels 0..n-1.
Frame(cols, rows) ==
    [columns |-> cols, index |-> [i \in 1..Len(rows) |-> i - 1], rows |-> rows]

FilterCriteria ==
    [player_name : {None, Some(<<"f","o">>), Some(PdotJ), Some(<<"(">>)},
     player_id : {None, Some(1)},
     game_id : {None, Some(PyString(Game21)), Some(PyInt(22))},
     team : {None, Some(SacLower), Some(SA)},
     period : {None, Some(1)},
     shot_type : {None, Some(Three)},
     made_only : {None, Some(TRUE), Some(FALSE)}]

InitFilter ==
    /\ table \in {Frame(REQUIRED_COLUMNS, rows) : rows \in SeqsUpTo(FilterRows, MaxRows)}
    /\ file = NoFile
    /\ call = NoCall
    /\ ret = NoRet
    /\ NoApiClient
    /\ NoShotChart

FilterShots ==
    /\ call = NoCall
    /\ \E c \in FilterCriteria :
        /\ call' = [op |-> "filter_shots", criteria |-> c]
        /\ ret' = filter_shots(table, c)
        /\ UNCHANGED inputs

NextFilter == FilterShots
SpecFilter == InitFilter /\ [][NextFilter]_vars

(***************************************************************************)
(* get_shot_summary.                                                       *)
(***************************************************************************)
RECURSIVE GCD(_, _)
GCD(a, b) == IF b = 0 THEN a ELSE GCD(b, a % b)

\* Python's a / b on non-negative ints: the quotient as a fraction in lowest
\* terms (two quotients are the same float iff they are the same fraction),
\* or ZeroDivisionError.
ZeroDivision == [err |-> "ZeroDivisionError"]
Zero == [num |-> 0, den |-> 1]
TrueDiv(a, b) ==
    IF b = 0 THEN ZeroDivision
    ELSE [num |-> a \div GCD(a, b), den |-> b \div GCD(a, b)]
Faulted(q) == "err" \in DOMAIN q

\* `made / total if total > 0 else 0.0`
PctUnguarded(made, total) == TrueDiv(made, total)
Pct(made, total) == IF total > 0 THEN TrueDiv(made, total) ELSE Zero

RECURSIVE SumShotMade(_, _)
\* df['shot_made'].sum(): nulls are skipped, True counts 1 and False 0.
SumShotMade(df, i) ==
    IF i > Length(df) THEN 0
    ELSE (IF df.rows[i]["shot_made"] = Some(TRUE) THEN 1 ELSE 0)
         + SumShotMade(df, i + 1)

\* len(df)
TotalShotsNonNull(df) ==
    Cardinality({i \in 1..Length(df) : ~IsNone(df.rows[i]["shot_made"])})
TotalShots(df) == Length(df)

\* df[df['shot_type'].str.contains('2PT', case=False, na=False)], and '3PT'.
TwosCaseSensitive(df) ==
    BoolIndex(df, [i \in 1..Length(df) |->
                     /\ ~IsNone(Column(df, "shot_type")[i])
                     /\ IsSubstring(<<"2","P","T">>, Val(Column(df, "shot_type")[i]))])
Twos(df) ==
    BoolIndex(df, [i \in 1..Length(df) |->
                     StrContainsCell(Column(df, "shot_type")[i], <<"2","P","T">>)])
Threes(df) ==
    BoolIndex(df, [i \in 1..Length(df) |->
                     StrContainsCell(Column(df, "shot_type")[i], <<"3","P","T">>)])

\* Series.nunique(): the number of distinct non-null values.
NUnique(df, col) ==
    Cardinality({df.rows[i][col] : i \in 1..Length(df)} \ {None})

get_shot_summary(df) ==
    LET total_shots == TotalShots(df)
        made_shots == SumShotMade(df, 1)
        fg_pct == Pct(made_shots, total_shots)
        twos == Twos(df)
        threes == Threes(df)
        two_made == IF Length(twos) > 0 THEN SumShotMade(twos, 1) ELSE 0
        two_total == Length(twos)
        two_pct == Pct(two_made, two_total)
        three_made == IF Length(threes) > 0 THEN SumShotMade(threes, 1) ELSE 0
        three_total == Length(threes)
        three_pct == Pct(three_made, three_total)
    IN  IF Faulted(fg_pct) \/ Faulted(two_pct) \/ Faulted(three_pct)
        THEN Raised("ZeroDivisionError", <<>>)
        ELSE Returned(
            [total_shots |-> total_shots,
             made_shots |-> made_shots,
             missed_shots |-> total_shots - made_shots,
             fg_pct |-> fg_pct,
             two_pt_made |-> two_made,
             two_pt_total |-> two_total,
             two_pt_pct |-> two_pct,
             three_pt_made |-> three_made,
             three_pt_total |-> three_total,
             three_pt_pct |-> three_pct,
             unique_players |-> NUnique(df, "player_name"),
             unique_games |-> NUnique(df, "game_id")])

(***************************************************************************)
(* Tables the summary is exercised on: every outcome with every kind of    *)
(* shot_type (two-pointer, three-pointer in lower case, null, neither,     *)
(* both).                                                                  *)
(***************************************************************************)
MaxSummaryRows == 3
TwoLower == <<"2","p","t">>
Dunk == <<"D","u","n","k">>
TwoAndThree == <<"2","P","T","3","P","T">>

SummaryRows ==
    { [BaseRow EXCEPT !.shot_made = m, !.shot_type = t,
                      !.player_name = IF m = None THEN Some(Paj) ELSE Some(Fox),
                      !.game_id = IF t = None THEN Some(Game22) ELSE Some(Game21)] :
        m \in {Some(TRUE), Some(FALSE), None},
        t \in {Some(TwoLower), Some(Three), None, Some(Dunk), Some(TwoAndThree)} }

InitSummary ==
    /\ table \in {Frame(REQUIRED_COLUMNS, rows) :
                    rows \in SeqsUpTo(SummaryRows, MaxSummaryRows)}
    /\ file = NoFile
    /\ call = NoCall
    /\ ret = NoRet
    /\ NoApiClient
    /\ NoShotChart

GetShotSummary ==
    /\ call = NoCall
    /\ call' = [op |-> "get_shot_summary"]
    /\ ret' = get_shot_summary(table)
    /\ UNCHANGED inputs

NextSummary == GetShotSummary
SpecSummary == InitSummary /\ [][NextSummary]_vars

(***************************************************************************)
(* Properties of filter_shots.                                             *)
(***************************************************************************)
\* Case-insensitive plain substring test on a nullable cell.
ContainsIgnoreCase(cell, sub) ==
    ~IsNone(cell) /\ IsSubstring(StrLower(sub), StrLower(Val(cell)))

\* The row satisfies every supplied criterion, read as the contract words them.
SatisfiesCriteria(row, c) ==
    /\ IsNone(c.player_name) \/ ContainsIgnoreCase(row["player_name"], Val(c.player_name))
    /\ IsNone(c.player_id) \/ row["player_id"] = Some(Val(c.player_id))
    /\ IsNone(c.game_id) \/ row["game_id"] = Some(PyStr(Val(c.game_id)))
    /\ IsNone(c.team)
        \/ (~IsNone(row["team"]) /\ StrLower(Val(row["team"])) = StrLower(Val(c.team)))
    /\ IsNone(c.period) \/ row["period"] = Some(Val(c.period))
    /\ IsNone(c.shot_type) \/ ContainsIgnoreCase(row["shot_type"], Val(c.shot_type))
    /\ IsNone(c.made_only) \/ row["shot_made"] = Some(Val(c.made_only))
RowsSatisfying(df, c) ==
    BoolIndex(df, [i \in 1..Length(df) |-> SatisfiesCriteria(df.rows[i], c)])

\* C1: filter_shots(T, criteria) returns exactly the rows of T that satisfy
\* every supplied criterion (player_name and shot_type as case-insensitive
\* substrings, team case-insensitive exact, the others exact); a criterion
\* left as None imposes no constraint.
C1_FilterReturnsExactlyMatchingRows ==
    (call.op = "filter_shots" /\ ret.kind = "return") =>
        ret.value = RowsSatisfying(table, call.criteria)

HasUnknownShotMade(df) ==
    \E i \in 1..Length(df) : IsNone(df.rows[i]["shot_made"])

\* C2: a row whose shot_made is unknown is never returned when made_only is
\* True or False; it can be returned only when made_only is omitted.
C2_UnknownNeverPassesMadeFilter ==
    (call.op = "filter_shots" /\ ret.kind = "return") =>
        (HasUnknownShotMade(ret.value) => IsNone(call.criteria.made_only))
\* A table holding an unknown-outcome row was filtered with made_only=False
\* and nothing else, and the call returned.
C2_Witness ==
    /\ call.op = "filter_shots"
    /\ call.criteria = [NoCriteria EXCEPT !.made_only = Some(FALSE)]
    /\ HasUnknownShotMade(table)
    /\ ret.kind = "return"
    /\ Length(ret.value) > 0

(***************************************************************************)
(* Properties of get_shot_summary.                                         *)
(***************************************************************************)
CountRows(df, P(_)) == Cardinality({i \in 1..Length(df) : P(df.rows[i])})
UnknownCount(df) == CountRows(df, LAMBDA row : IsNone(row["shot_made"]))

\* C3: made_shots + missed_shots + unknown_count == total_shots, where
\* unknown_count is the number of rows with null shot_made: such a row is
\* counted in total_shots but in neither made_shots nor missed_shots.
C3_MadeMissedUnknownSumToTotal ==
    call.op = "get_shot_summary" =>
        /\ ret.kind = "return"
        /\ ret.value.made_shots + ret.value.missed_shots + UnknownCount(table)
            = ret.value.total_shots

\* C4: total_shots is the number of rows and made_shots + missed_shots ==
\* total_shots, for every table.
C4_MadePlusMissedIsTotal ==
    call.op = "get_shot_summary" =>
        /\ ret.kind = "return"
        /\ ret.value.total_shots = Len(table.rows)
        /\ ret.value.made_shots + ret.value.missed_shots = ret.value.total_shots
\* A table with a made shot and an unknown-outcome shot was summarised.
C4_Witness ==
    /\ call.op = "get_shot_summary"
    /\ ret.kind = "return"
    /\ ret.value.made_shots > 0
    /\ UnknownCount(table) > 0

\* q is exactly the quotient a / b, or 0.0 when b is 0.
IsQuotientOrZero(q, a, b) ==
    IF b = 0 THEN q = Zero ELSE q.num * b = a * q.den /\ q.den > 0

\* C5: get_shot_summary never faults on division by zero: each percentage is
\* 0.0 when its total is 0 and made/total exactly otherwise; an empty table
\* yields a summary.
C5_PercentagesNeverDivideByZero ==
    call.op = "get_shot_summary" =>
        /\ ret.kind = "return"
        /\ IsQuotientOrZero(ret.value.fg_pct, ret.value.made_shots,
                            ret.value.total_shots)
        /\ IsQuotientOrZero(ret.value.two_pt_pct, ret.value.two_pt_made,
                            ret.value.two_pt_total)
        /\ IsQuotientOrZero(ret.value.three_pt_pct, ret.value.three_pt_made,
                            ret.value.three_pt_total)
\* The empty table was summarised.
C5_Witness ==
    /\ call.op = "get_shot_summary"
    /\ Length(table) = 0
    /\ ret.kind = "return"
    /\ ret.value.fg_pct = Zero

IsTwo(row) == ContainsIgnoreCase(row["shot_type"], <<"2","P","T">>)
IsThree(row) == ContainsIgnoreCase(row["shot_type"], <<"3","P","T">>)
EveryRowTwoOrThree(df) ==
    \A i \in 1..Length(df) : IsTwo(df.rows[i]) # IsThree(df.rows[i])

\* C6: when every shot_type contains exactly one of "2PT" and "3PT"
\* (case-insensitive), two_pt_total + three_pt_total == total_shots and
\* two_pt_made + three_pt_made == made_shots; a row whose shot_type is null or
\* contains neither is counted in neither split.
C6_SplitsPartitionTheTable ==
    call.op = "get_shot_summary" =>
        /\ ret.kind = "return"
        /\ EveryRowTwoOrThree(table) =>
            /\ ret.value.two_pt_total + ret.value.three_pt_total
                = ret.value.total_shots
            /\ ret.value.two_pt_made + ret.value.three_pt_made
                = ret.value.made_shots
        /\ ret.value.two_pt_total = CountRows(table, IsTwo)
        /\ ret.value.three_pt_total = CountRows(table, IsThree)
\* A table of two-pointers and three-pointers only, some made, was summarised.
C6_Witness ==
    /\ call.op = "get_shot_summary"
    /\ ret.kind = "return"
    /\ EveryRowTwoOrThree(table)
    /\ ret.value.two_pt_total > 0
    /\ ret.value.three_pt_total > 0
    /\ ret.value.made_shots > 0

(***************************************************************************)
(* validate_columns.                                                       *)
(***************************************************************************)
RaisedMissingColumns(missing) ==
    [kind |-> "raise", exc |-> "MissingColumnsError", missing_columns |-> missing]

RECURSIVE MissingFrom(_, _, _)
\* [col for col in REQUIRED_COLUMNS[i:] if col not in columns]
MissingFrom(required, columns, i) ==
    IF i > Len(required) THEN <<>>
    ELSE IF required[i] \notin SeqToSet(columns)
         THEN <<required[i]>> \o MissingFrom(required, columns, i + 1)
         ELSE MissingFrom(required, columns, i + 1)

MissingFirstOnly(df) ==
    LET all == MissingFrom(REQUIRED_COLUMNS, df.columns, 1)
    IN  IF all = <<>> THEN <<>> ELSE <<all[1]>>
MissingColumns(df) == MissingFrom(REQUIRED_COLUMNS, df.columns, 1)

validate_columns(df) ==
    LET missing == MissingColumns(df)
    IN  IF missing # <<>> THEN RaisedMissingColumns(missing) ELSE Returned(None)

(***************************************************************************)
(* Tables with some required columns dropped, in file order or reversed,   *)
(* with or without columns the schema does not know.                       *)
(***************************************************************************)
MaxMissing == 3
MaxExtra == 1
ExtraColumns == <<"extra_col", "notes", "season">>

Reverse(s) == [i \in 1..Len(s) |-> s[Len(s) + 1 - i]]
\* The columns of `columns` other than those in `dropped`, in order.
Without(columns, dropped) ==
    KeepPositions(columns, [i \in 1..Len(columns) |-> columns[i] \notin dropped], 1)
\* One row holding BaseRow's cell in every known column, a blank elsewhere.
RowOver(columns) ==
    [c \in SeqToSet(columns) |->
        IF c \in DOMAIN BaseRow THEN BaseRow[c] ELSE Some(<<>>)]

ColumnLists ==
    { order \o SubSeq(ExtraColumns, 1, k) :
        order \in UNION { {Without(REQUIRED_COLUMNS, d),
                           Reverse(Without(REQUIRED_COLUMNS, d))} :
                          d \in {x \in SUBSET SeqToSet(REQUIRED_COLUMNS) :
                                    Cardinality(x) <= MaxMissing} },
        k \in 0..MaxExtra }

InitColumns ==
    /\ table \in {Frame(cols, <<RowOver(cols)>>) : cols \in ColumnLists}
    /\ file = NoFile
    /\ call = NoCall
    /\ ret = NoRet
    /\ NoApiClient
    /\ NoShotChart

ValidateColumns ==
    /\ call = NoCall
    /\ call' = [op |-> "validate_columns"]
    /\ ret' = validate_columns(table)
    /\ UNCHANGED inputs

NextColumns == ValidateColumns
SpecColumns == InitColumns /\ [][NextColumns]_vars

\* The required columns the table lacks, in REQUIRED_COLUMNS order.
AbsentRequired(df) ==
    SelectSeq(REQUIRED_COLUMNS, LAMBDA c : \A j \in 1..Len(df.columns) : df.columns[j] # c)

\* C7: validate_columns fails with MissingColumnsError whose missing_columns
\* is exactly the absent required columns, all of them, in REQUIRED_COLUMNS
\* order; it succeeds iff all 14 are present, whatever extra columns exist.
C7_MissingColumnsAreAllListed ==
    call.op = "validate_columns" =>
        /\ (ret.kind = "return") <=> (AbsentRequired(table) = <<>>)
        /\ ret.kind # "return" =>
            /\ ret.kind = "raise"
            /\ ret.exc = "MissingColumnsError"
            /\ ret.missing_columns = AbsentRequired(table)
\* A table lacking two required columns and holding an unknown one was
\* validated and rejected.
C7_Witness ==
    /\ call.op = "validate_columns"
    /\ ret.kind = "raise"
    /\ Len(ret.missing_columns) = 2
    /\ "extra_col" \in SeqToSet(table.columns)

(***************************************************************************)
(* convert_shot_made.  A raw Python value is tagged with its type:         *)
(* [t |-> "NoneType"], [t |-> "NA"] (pd.NA), [t |-> "nan"] (float nan),     *)
(* [t |-> "bool", b |-> ...], [t |-> "int", n |-> ...],                      *)
(* [t |-> "float", tenths |-> ...] (the float tenths / 10) and              *)
(* [t |-> "str", v |-> chars].                                              *)
(***************************************************************************)
PyNone == [t |-> "NoneType"]
PyNA == [t |-> "NA"]
PyNaN == [t |-> "nan"]
PyBool(b) == [t |-> "bool", b |-> b]
PyFloat(tenths) == [t |-> "float", tenths |-> tenths]

\* pd.isna(value) on a scalar.
PdIsNa(value) == value.t \in {"NoneType", "NA", "nan"}
\* bool(value) of an int or a float.
Truthiness(value) == IF value.t = "int" THEN value.n # 0 ELSE value.tenths # 0

Whitespace == {" ", "\t", "\n"}
RECURSIVE LStrip(_)
LStrip(s) ==
    IF s # <<>> /\ Head(s) \in Whitespace THEN LStrip(Tail(s)) ELSE s
RECURSIVE RStrip(_)
RStrip(s) ==
    IF s # <<>> /\ s[Len(s)] \in Whitespace
    THEN RStrip(SubSeq(s, 1, Len(s) - 1)) ELSE s
\* str.strip()
Strip(s) == RStrip(LStrip(s))

TrueLiteralsDocstring ==
    { <<"t","r","u","e">>, <<"1">>, <<"y","e","s">>, <<"m","a","d","e">> }
TrueLiterals ==
    { <<"t","r","u","e">>, <<"1">>, <<"y","e","s">>, <<"m","a","d","e">>, <<"y">> }
FalseLiterals ==
    { <<"f","a","l","s","e">>, <<"0">>, <<"n","o">>,
      <<"m","i","s","s","e","d">>, <<"n">> }

\* raise ValueError(f"Cannot convert '{value}' to boolean")
CannotConvert(literal) ==
    Raised("ValueError", [text |-> "Cannot convert '{value}' to boolean",
                          value |-> literal])

convert_shot_made(value) ==
    IF PdIsNa(value) THEN Returned(None)
    ELSE IF value.t = "bool" THEN Returned(Some(value.b))
    ELSE IF value.t \in {"int", "float"} THEN Returned(Some(Truthiness(value)))
    ELSE IF value.t = "str" /\ Strip(StrLower(value.v)) \in TrueLiterals
         THEN Returned(Some(TRUE))
    ELSE IF value.t = "str" /\ Strip(StrLower(value.v)) \in FalseLiterals
         THEN Returned(Some(FALSE))
    ELSE CannotConvert(value.v)

(***************************************************************************)
(* The values convert_shot_made is exercised on: every literal of both     *)
(* sets and some strings outside them, in lower case, upper case and       *)
(* capitalized, with up to MaxPad whitespace characters on either side.    *)
(***************************************************************************)
TestedStrings ==
    { <<"t","r","u","e">>, <<"1">>, <<"y","e","s">>, <<"m","a","d","e">>, <<"y">>,
      <<"f","a","l","s","e">>, <<"0">>, <<"n","o">>,
      <<"m","i","s","s","e","d">>, <<"n">> }
OtherStrings ==
    { <<"m","a","y","b","e">>, <<>>, <<"t">>, <<"n","a","n">>, <<"2">>,
      <<"y","e","s","s">>, <<"n"," ","o">>, <<"o","n">> }
Capitalize(s) ==
    [i \in 1..Len(s) |-> IF i = 1 THEN UpperChar(s[i]) ELSE s[i]]
Padding == SeqsUpTo({" ", "\t"}, MaxPad)
ShotMadeStrings ==
    { l \o c \o r :
        c \in UNION { {b, StrUpper(b), Capitalize(b)} :
                      b \in TestedStrings \cup OtherStrings },
        l \in Padding, r \in Padding }
ShotMadeInputs ==
    {PyNone, PyNA, PyNaN, PyBool(TRUE), PyBool(FALSE)}
    \cup {PyInt(n) : n \in {-1, 0, 1, 2}}
    \cup {PyFloat(x) : x \in {0, 5, 10}}
    \cup {PyString(s) : s \in ShotMadeStrings}

EmptyFrame == Frame(REQUIRED_COLUMNS, <<>>)

InitShotMade ==
    /\ table = EmptyFrame
    /\ file = NoFile
    /\ call = NoCall
    /\ ret = NoRet
    /\ NoApiClient
    /\ NoShotChart

ConvertShotMade ==
    /\ call = NoCall
    /\ \E value \in ShotMadeInputs :
        /\ call' = [op |-> "convert_shot_made", value |-> value]
        /\ ret' = convert_shot_made(value)
    /\ UNCHANGED inputs

NextShotMade == ConvertShotMade
SpecShotMade == InitShotMade /\ [][NextShotMade]_vars

\* s, lower-cased, is the literal lit with nothing but whitespace around it.
NormalizesTo(s, lit) ==
    \E i \in 0..Len(s), j \in 0..Len(s) :
        /\ i + Len(lit) + j = Len(s)
        /\ \A k \in 1..i : s[k] \in Whitespace
        /\ \A k \in 1..Len(lit) : LowerChar(s[i + k]) = lit[k]
        /\ \A k \in 1..j : s[i + Len(lit) + k] \in Whitespace
OneOf(s, lits) == \E lit \in lits : NormalizesTo(s, lit)

ClaimedTrue ==
    { <<"t","r","u","e">>, <<"1">>, <<"y","e","s">>, <<"m","a","d","e">>, <<"y">> }
ClaimedFalse ==
    { <<"f","a","l","s","e">>, <<"0">>, <<"n","o">>,
      <<"m","i","s","s","e","d">>, <<"n">> }

\* C8: convert_shot_made maps missing/NaN to null, a boolean to itself, a
\* number to its truthiness, a string whose lower-cased, stripped form is in
\* {true, 1, yes, made, y} to true and in {false, 0, no, missed, n} to false;
\* any other string fails with an error naming the offending literal.
C8_ShotMadeTriStateMapping ==
    call.op = "convert_shot_made" =>
        LET value == call.value
        IN  CASE value.t \in {"NoneType", "NA", "nan"} -> ret = Returned(None)
              [] value.t = "bool" -> ret = Returned(Some(value.b))
              [] value.t = "int" -> ret = Returned(Some(value.n # 0))
              [] value.t = "float" -> ret = Returned(Some(value.tenths # 0))
              [] value.t = "str" ->
                    IF OneOf(value.v, ClaimedTrue) THEN ret = Returned(Some(TRUE))
                    ELSE IF OneOf(value.v, ClaimedFalse)
                         THEN ret = Returned(Some(FALSE))
                    ELSE /\ ret.kind = "raise"
                         /\ ret.exc = "ValueError"
                         /\ ret.msg.value = value.v
\* The literal "Y" with whitespace around it was converted to true.
C8_Witness ==
    /\ call.op = "convert_shot_made"
    /\ call.value = PyString(<<" ", "Y", " ">>)
    /\ ret = Returned(Some(TRUE))

(***************************************************************************)
(* validate_data_ranges, on a table convert_dtypes produced.               *)
(***************************************************************************)
\* A bound of a float column, in the tenths its cells are held in.
Tenths(n) == 10 * n

\* (df[col] < lo) | (df[col] > hi), for one non-null cell.
OutOfRangeLowerInclusive(v, lo, hi) == v <= lo \/ v > hi
OutOfRange(v, lo, hi) == v < lo \/ v > hi

\* One range check: nothing when the column has no non-null cell or no
\* violating row, else the warning f"Found {count} {text}".
RangeWarning(df, col, lo, hi, text) ==
    LET cells == Column(df, col)
        invalid == {i \in 1..Length(df) :
                        ~IsNone(cells[i]) /\ OutOfRange(Val(cells[i]), lo, hi)}
    IN  IF (\E i \in 1..Length(df) : ~IsNone(cells[i])) /\ Cardinality(invalid) > 0
        THEN <<[found |-> Cardinality(invalid), text |-> text]>>
        ELSE <<>>

\* `if strict and warnings`
RaiseOnAnyWarning(strict, warnings) == warnings # <<>>
RaiseOnWarnings(strict, warnings) == strict /\ warnings # <<>>

validate_data_ranges(df, strict) ==
    LET warnings ==
            RangeWarning(df, "period", 1, 10, "shots with unusual period values")
         \o RangeWarning(df, "minutes_remaining", 0, 12,
                         "shots with minutes outside 0-12 range")
         \o RangeWarning(df, "seconds_remaining", 0, 59,
                         "shots with seconds outside 0-59 range")
         \o RangeWarning(df, "shot_distance", Tenths(0), Tenths(50),
                         "shots with distance outside 0-50 feet")
         \o RangeWarning(df, "loc_x", Tenths(-300), Tenths(300),
                         "shots with loc_x outside court bounds")
         \o RangeWarning(df, "loc_y", Tenths(-100), Tenths(500),
                         "shots with loc_y outside court bounds")
    IN  IF RaiseOnWarnings(strict, warnings)
        THEN Raised("DataValidationError",
                    [text |-> "Data validation warnings:", warnings |-> warnings])
        ELSE Returned(warnings)

(***************************************************************************)
(* convert_dtypes, on the raw cells pd.read_csv or a caller supplies.      *)
(***************************************************************************)
IsDigit(c) == \E i \in 1..Len(DigitChars) : DigitChars[i] = c
DigitVal(c) == (CHOOSE i \in 1..Len(DigitChars) : DigitChars[i] = c) - 1
AllDigits(s) == s # <<>> /\ \A i \in 1..Len(s) : IsDigit(s[i])
RECURSIVE DigitsToNat(_)
DigitsToNat(s) ==
    IF s = <<>> THEN 0
    ELSE 10 * DigitsToNat(SubSeq(s, 1, Len(s) - 1)) + DigitVal(s[Len(s)])

\* The number a string denotes, or NaN: integers and one-decimal floats, with
\* an optional minus sign.
ParseNumeric(s) ==
    LET neg == s # <<>> /\ Head(s) = "-"
        body == IF neg THEN Tail(s) ELSE s
        sign == IF neg THEN -1 ELSE 1
        n == Len(body)
    IN  IF AllDigits(body) THEN PyInt(sign * DigitsToNat(body))
        ELSE IF n >= 3 /\ body[n - 1] = "." /\ IsDigit(body[n])
                /\ AllDigits(SubSeq(body, 1, n - 2))
             THEN PyFloat(sign * (10 * DigitsToNat(SubSeq(body, 1, n - 2))
                                  + DigitVal(body[n])))
        ELSE PyNaN

\* pd.to_numeric(..., errors='coerce'), for one cell.
ToNumericCoerce(raw) ==
    CASE raw.t \in {"int", "float"} -> raw
      [] raw.t \in {"nan", "NA", "NoneType"} -> PyNaN
      [] raw.t = "str" -> ParseNumeric(raw.v)

\* .astype('Int64') refuses a float that is not a whole number.
UnsafeIntCast(num) == num.t = "float" /\ num.tenths % 10 # 0
AsTypeInt64(num) ==
    CASE num.t = "int" -> Some(num.n)
      [] num.t = "float" -> Some(num.tenths \div 10)
      [] num.t = "nan" -> None
\* .astype(float); float cells are held in tenths.
AsTypeFloat(num) ==
    CASE num.t = "int" -> Some(10 * num.n)
      [] num.t = "float" -> Some(num.tenths)
      [] num.t = "nan" -> None

Abs(n) == IF n < 0 THEN -n ELSE n
\* str(x) of a float: "-1.5", "2.0".
FloatToStr(tenths) ==
    (IF tenths < 0 THEN <<"-">> ELSE <<>>)
    \o NatToStr(Abs(tenths) \div 10) \o <<".">> \o NatToStr(Abs(tenths) % 10)
\* .astype(str), for one cell.
AsTypeStr(raw) ==
    CASE raw.t = "str" -> raw.v
      [] raw.t = "int" -> PyStr(raw)
      [] raw.t = "float" -> FloatToStr(raw.tenths)
      [] raw.t = "nan" -> <<"n","a","n">>
      [] raw.t = "bool" -> IF raw.b THEN <<"T","r","u","e">>
                                    ELSE <<"F","a","l","s","e">>
\* .astype(str).replace('nan', pd.NA)
AsTypeStrNullable(raw) ==
    IF AsTypeStr(raw) = <<"n","a","n">> THEN None ELSE Some(AsTypeStr(raw))

\* The columns in the order convert_dtypes converts them, each with the
\* conversion applied and the type named in its InvalidDataTypeError.
ConversionSteps ==
    << [col |-> "game_id", as |-> "str", expected |-> "string"],
       [col |-> "player_id", as |-> "Int64", expected |-> "integer"],
       [col |-> "player_name", as |-> "str_na", expected |-> "string"],
       [col |-> "team", as |-> "str_na", expected |-> "string"],
       [col |-> "shot_type", as |-> "str_na", expected |-> "string"],
       [col |-> "shot_zone", as |-> "str_na", expected |-> "string"],
       [col |-> "action_type", as |-> "str_na", expected |-> "string"],
       [col |-> "period", as |-> "Int64", expected |-> "integer"],
       [col |-> "minutes_remaining", as |-> "Int64", expected |-> "integer"],
       [col |-> "seconds_remaining", as |-> "Int64", expected |-> "integer"],
       [col |-> "shot_made", as |-> "bool", expected |-> "boolean"],
       [col |-> "shot_distance", as |-> "float", expected |-> "float"],
       [col |-> "loc_x", as |-> "float", expected |-> "float"],
       [col |-> "loc_y", as |-> "float", expected |-> "float"] >>

ConvertCell(as, raw) ==
    CASE as = "str" -> Some(AsTypeStr(raw))
      [] as = "str_na" -> AsTypeStrNullable(raw)
      [] as = "Int64" -> AsTypeInt64(ToNumericCoerce(raw))
      [] as = "float" -> AsTypeFloat(ToNumericCoerce(raw))
      [] as = "bool" -> convert_shot_made(raw).value
\* The conversion of this cell raises.
CellFails(as, raw) ==
    CASE as = "Int64" -> UnsafeIntCast(ToNumericCoerce(raw))
      [] as = "bool" -> convert_shot_made(raw).kind = "raise"
      [] OTHER -> FALSE
\* The step raises: the column is absent (KeyError) or one of its cells fails.
StepFails(df, step) ==
    \/ step.col \notin SeqToSet(df.columns)
    \/ \E i \in 1..Length(df) : CellFails(step.as, df.rows[i][step.col])

InvalidDataType(step) ==
    Raised("InvalidDataTypeError",
           [column |-> step.col, expected_type |-> step.expected])

ConvertRow(row) ==
    [c \in DOMAIN row |->
        IF \E k \in 1..Len(ConversionSteps) : ConversionSteps[k].col = c
        THEN ConvertCell(
                ConversionSteps[CHOOSE k \in 1..Len(ConversionSteps) :
                                    ConversionSteps[k].col = c].as,
                row[c])
        ELSE row[c]]

convert_dtypes(df) ==
    IF \E k \in 1..Len(ConversionSteps) : StepFails(df, ConversionSteps[k])
    THEN InvalidDataType(
            ConversionSteps[CHOOSE k \in 1..Len(ConversionSteps) :
                /\ StepFails(df, ConversionSteps[k])
                /\ \A j \in 1..(k - 1) : ~StepFails(df, ConversionSteps[j])])
    ELSE Returned([columns |-> df.columns,
                   index |-> df.index,
                   rows |-> [i \in 1..Length(df) |-> ConvertRow(df.rows[i])]])

\* df = df with no copy taken: the name still refers to the caller's table.
DfAlias(df) == [frame |-> df, is_callers |-> TRUE]
\* df.copy(): a new object holding the same cells.
DfCopy(df) == [frame |-> df, is_callers |-> FALSE]

\* The number of column assignments df[col] = ... carried out before
\* convert_dtypes returns or raises.
AssignmentsDone(df) ==
    IF \E k \in 1..Len(ConversionSteps) : StepFails(df, ConversionSteps[k])
    THEN (CHOOSE k \in 1..Len(ConversionSteps) :
            /\ StepFails(df, ConversionSteps[k])
            /\ \A j \in 1..(k - 1) : ~StepFails(df, ConversionSteps[j])) - 1
    ELSE Len(ConversionSteps)
\* A cell of a column that has been assigned its converted values.
AssignedCell(as, raw) == [dtype |-> as, cell |-> ConvertCell(as, raw)]
\* The frame with the columns of the first n conversion steps assigned, the
\* other columns still raw.
AssignedThrough(df, n) ==
    [columns |-> df.columns,
     index |-> df.index,
     rows |-> [i \in 1..Length(df) |->
                [c \in DOMAIN df.rows[i] |->
                    IF \E k \in 1..n : ConversionSteps[k].col = c
                    THEN AssignedCell(
                            ConversionSteps[CHOOSE k \in 1..n :
                                                ConversionSteps[k].col = c].as,
                            df.rows[i][c])
                    ELSE df.rows[i][c]]]]
\* The caller's table once convert_dtypes(df) has returned or raised: the
\* assignments land in the object the local name df refers to.
CallersTableAfterConvert(df) ==
    IF DfCopy(df).is_callers
    THEN AssignedThrough(DfCopy(df).frame, AssignmentsDone(df))
    ELSE df

(***************************************************************************)
(* load_shots_csv.  file is what the path names: whether it exists, its    *)
(* suffix and whether pd.read_csv can parse it; parsed is the DataFrame    *)
(* pd.read_csv then yields.  The warnings it prints are returned beside    *)
(* the table.                                                              *)
(***************************************************************************)
DotCsv == <<".","c","s","v">>
ReturnedPrinting(v, lines) == [kind |-> "return", value |-> v, printed |-> lines]

\* load_shots_csv checking the extension before the existence of the path.
LoadSuffixFirst(f, parsed, validate, strict) ==
    IF StrLower(f.suffix) # DotCsv
    THEN Raised("ValueError", [text |-> "Expected CSV file", suffix |-> f.suffix])
    ELSE IF ~f.exists
    THEN Raised("FileNotFoundError", [text |-> "Shot data file not found"])
    ELSE IF ~f.parsable \/ Length(parsed) = 0
    THEN Raised("DataValidationError", [text |-> "Failed to read CSV file"])
    ELSE IF validate /\ validate_columns(parsed).kind = "raise"
    THEN validate_columns(parsed)
    ELSE ReturnedPrinting(parsed, <<>>)

load_shots_csv(f, parsed, validate, strict) ==
    IF ~f.exists
    THEN Raised("FileNotFoundError", [text |-> "Shot data file not found"])
    ELSE IF StrLower(f.suffix) # DotCsv
    THEN Raised("ValueError", [text |-> "Expected CSV file", suffix |-> f.suffix])
    ELSE IF ~f.parsable
    THEN Raised("DataValidationError", [text |-> "Failed to read CSV file"])
    ELSE IF Length(parsed) = 0
    THEN Raised("DataValidationError", [text |-> "CSV file is empty (no data rows)"])
    ELSE IF ~validate THEN ReturnedPrinting(parsed, <<>>)
    ELSE IF validate_columns(parsed).kind = "raise" THEN validate_columns(parsed)
    ELSE IF convert_dtypes(parsed).kind = "raise" THEN convert_dtypes(parsed)
    ELSE LET df == convert_dtypes(parsed).value
             warnings == validate_data_ranges(df, strict)
         IN  IF warnings.kind = "raise" THEN warnings
             ELSE ReturnedPrinting(df, warnings.value)

(***************************************************************************)
(* Raw tables and files the loader is exercised on.  Each range column     *)
(* takes a value below its range, on either bound, above it, or none.      *)
(***************************************************************************)
MaxLoadRows == 2

RawBase ==
    [game_id |-> PyInt(21), player_id |-> PyInt(1), player_name |-> PyString(Fox),
     team |-> PyString(SAC), period |-> PyInt(1), minutes_remaining |-> PyInt(5),
     seconds_remaining |-> PyInt(30), shot_made |-> PyBool(TRUE),
     shot_type |-> PyString(Three), shot_distance |-> PyFloat(250),
     loc_x |-> PyInt(0), loc_y |-> PyFloat(2500), shot_zone |-> PyString(Zone),
     action_type |-> PyString(Jump)]

RangeKinds == {"below", "low", "high", "above", "null"}
RawInt(kind, lo, hi) ==
    CASE kind = "below" -> PyInt(lo - 1)
      [] kind = "low" -> PyInt(lo)
      [] kind = "high" -> PyInt(hi)
      [] kind = "above" -> PyInt(hi + 1)
      [] kind = "null" -> PyNaN
RawFloat(kind, lo, hi) ==
    CASE kind = "below" -> PyFloat(Tenths(lo) - 1)
      [] kind = "low" -> PyFloat(Tenths(lo))
      [] kind = "high" -> PyFloat(Tenths(hi))
      [] kind = "above" -> PyFloat(Tenths(hi) + 1)
      [] kind = "null" -> PyNaN

\* The row whose every range column is of the given kind.
RawRangeRow(kind) ==
    [RawBase EXCEPT !.period = RawInt(kind, 1, 10),
                    !.minutes_remaining = RawInt(kind, 0, 12),
                    !.seconds_remaining = RawInt(kind, 0, 59),
                    !.shot_distance = RawFloat(kind, 0, 50),
                    !.loc_x = RawFloat(kind, -300, 300),
                    !.loc_y = RawFloat(kind, -100, 500)]

RawRows ==
    {RawBase}
    \cup {RawRangeRow(kind) : kind \in RangeKinds}
    \cup { [RawBase EXCEPT !.period = RawInt("below", 1, 10)],
           [RawBase EXCEPT !.minutes_remaining = RawInt("above", 0, 12)],
           [RawBase EXCEPT !.seconds_remaining = RawInt("below", 0, 59)],
           [RawBase EXCEPT !.shot_distance = RawFloat("above", 0, 50)],
           [RawBase EXCEPT !.loc_x = RawFloat("below", -300, 300)],
           [RawBase EXCEPT !.loc_y = RawFloat("above", -100, 500)] }
    \cup { [RawBase EXCEPT !.period = PyString(<<"O","T">>),
                           !.shot_made = PyString(<<"Y","e","s">>),
                           !.loc_x = PyString(<<"-","3","0","0",".","5">>)],
           [RawBase EXCEPT !.period = PyFloat(15)],
           [RawBase EXCEPT !.shot_made = PyString(<<"m","a","y","b","e">>)],
           [RawBase EXCEPT !.shot_made = PyNaN, !.player_name = PyNaN,
                           !.minutes_remaining = PyString(<<"1","3">>)] }

RawTables ==
    {Frame(REQUIRED_COLUMNS, rows) : rows \in SeqsUpTo(RawRows, MaxLoadRows)}
    \cup { Frame(Without(REQUIRED_COLUMNS, {"team"}),
                 <<[c \in SeqToSet(REQUIRED_COLUMNS) \ {"team"} |-> RawBase[c]]>>) }

\* Files whose header lacks a required column, with no data row and with one.
HeaderTables ==
    { Frame(Without(REQUIRED_COLUMNS, {"team"}), rows) :
        rows \in { <<>>,
                   <<[c \in SeqToSet(REQUIRED_COLUMNS) \ {"team"} |-> RawBase[c]]>> } }

CsvFile == [exists |-> TRUE, suffix |-> DotCsv, parsable |-> TRUE]
Files ==
    [exists : BOOLEAN,
     suffix : {DotCsv, <<".","C","S","V">>, <<".","t","x","t">>, <<>>},
     parsable : BOOLEAN]

InitLoad ==
    /\ \/ file = CsvFile /\ table \in RawTables
       \/ file \in Files /\ table \in {Frame(REQUIRED_COLUMNS, <<>>),
                                       Frame(REQUIRED_COLUMNS, <<RawBase>>),
                                       Frame(REQUIRED_COLUMNS,
                                             <<RawRangeRow("above")>>)}
                                      \cup HeaderTables
    /\ call = NoCall
    /\ ret = NoRet
    /\ NoApiClient
    /\ NoShotChart

ConvertDtypes ==
    /\ call = NoCall
    /\ call' = [op |-> "convert_dtypes"]
    /\ ret' = convert_dtypes(table)
    /\ table' = CallersTableAfterConvert(table)
    /\ UNCHANGED <<file, api, charting>>

\* validate_data_ranges(convert_dtypes(table), strict)
ValidateDataRanges ==
    /\ call = NoCall
    /\ convert_dtypes(table).kind = "return"
    /\ \E strict \in BOOLEAN :
        /\ call' = [op |-> "validate_data_ranges",
                    df |-> convert_dtypes(table).value, strict |-> strict]
        /\ ret' = validate_data_ranges(convert_dtypes(table).value, strict)
    /\ UNCHANGED inputs

\* load_shots_csv(path, validate, strict), pd.read_csv(path) yielding table
LoadShotsCsv ==
    /\ call = NoCall
    /\ \E validate \in BOOLEAN, strict \in BOOLEAN :
        /\ call' = [op |-> "load_shots_csv", validate |-> validate,
                    strict |-> strict]
        /\ ret' = load_shots_csv(file, table, validate, strict)
    /\ UNCHANGED inputs

NextLoad == ConvertDtypes \/ ValidateDataRanges \/ LoadShotsCsv
SpecLoad == InitLoad /\ [][NextLoad]_vars

(***************************************************************************)
(* Properties of validate_data_ranges and of loading under it.             *)
(***************************************************************************)
\* The six inclusive ranges, in the order they are inspected; the bounds of
\* the float columns in tenths.
InspectedRanges ==
    << [col |-> "period", lo |-> 1, hi |-> 10],
       [col |-> "minutes_remaining", lo |-> 0, hi |-> 12],
       [col |-> "seconds_remaining", lo |-> 0, hi |-> 59],
       [col |-> "shot_distance", lo |-> 0, hi |-> 500],
       [col |-> "loc_x", lo |-> -3000, hi |-> 3000],
       [col |-> "loc_y", lo |-> -1000, hi |-> 5000] >>
\* The rows holding a non-null value outside the k-th range.
Violating(df, k) ==
    {i \in 1..Length(df) :
        LET cell == df.rows[i][InspectedRanges[k].col]
        IN  /\ cell # None
            /\ ~(InspectedRanges[k].lo <= cell[1] /\ cell[1] <= InspectedRanges[k].hi)}
ViolatedRanges(df) ==
    SelectSeq([k \in 1..Len(InspectedRanges) |-> k],
              LAMBDA k : Violating(df, k) # {})
\* The warnings a call produced, returned or carried by the strict error.
WarningsOf(r) == IF r.kind = "return" THEN r.value ELSE r.msg.warnings
WarningTexts ==
    << "shots with unusual period values",
       "shots with minutes outside 0-12 range",
       "shots with seconds outside 0-59 range",
       "shots with distance outside 0-50 feet",
       "shots with loc_x outside court bounds",
       "shots with loc_y outside court bounds" >>

\* One warning per violated range, in order, with its count of violating rows.
ExpectedWarnings(df) ==
    [j \in 1..Len(ViolatedRanges(df)) |->
        [found |-> Cardinality(Violating(df, ViolatedRanges(df)[j])),
         text |-> WarningTexts[ViolatedRanges(df)[j]]]]

\* C9: validate_data_ranges inspects the six inclusive ranges in fixed order
\* and yields one warning per range with at least one non-null out-of-range
\* value, stating the number of violating rows; nulls are never violations
\* and values on a bound produce no warning.
C9_OneWarningPerViolatedRange ==
    call.op = "validate_data_ranges" =>
        WarningsOf(ret) = ExpectedWarnings(call.df)
\* A table of one row with every range column null and one row with every
\* range column above its range was validated: six warnings of one row each.
C9_Witness ==
    /\ call.op = "validate_data_ranges"
    /\ ret.kind = "return"
    /\ Len(ret.value) = 6
    /\ \A j \in 1..6 : ret.value[j].found = 1
    /\ \E i \in 1..Length(call.df) :
        \A k \in 1..6 : call.df.rows[i][InspectedRanges[k].col] = None

\* C10: range violations are fatal only under strict mode: strict=True fails
\* with one DataValidationError carrying every warning iff a warning exists;
\* strict=False never fails and returns the warnings, and load_shots_csv then
\* returns the full table, out-of-range rows kept.
C10_RangesFatalOnlyWhenStrict ==
    /\ call.op = "validate_data_ranges" =>
        IF call.strict /\ ViolatedRanges(call.df) # <<>>
        THEN /\ ret.kind = "raise"
             /\ ret.exc = "DataValidationError"
             /\ ret.msg.warnings = ExpectedWarnings(call.df)
        ELSE ret = Returned(ExpectedWarnings(call.df))
    /\ (/\ call.op = "load_shots_csv" /\ call.validate /\ ~call.strict
        /\ file = CsvFile /\ Length(table) > 0
        /\ validate_columns(table).kind = "return"
        /\ convert_dtypes(table).kind = "return") =>
            /\ ret.kind = "return"
            /\ ret.value = convert_dtypes(table).value
            /\ Length(ret.value) = Length(table)
            /\ ret.printed = ExpectedWarnings(ret.value)
\* A file with an out-of-range row was loaded without strict mode and the
\* row came back in the table.
C10_Witness ==
    /\ call.op = "load_shots_csv" /\ call.validate /\ ~call.strict
    /\ ret.kind = "return"
    /\ Length(ret.value) = 2
    /\ Len(ViolatedRanges(ret.value)) = 6
    /\ Violating(ret.value, 1) = {1, 2}

(***************************************************************************)
(* Properties of the order in which load_shots_csv rejects its input.      *)
(***************************************************************************)
\* The suffix is ".csv" up to the case of its letters.
IsCsvSuffix(suffix) ==
    /\ Len(suffix) = 4
    /\ suffix[1] = "."
    /\ suffix[2] \in {"c", "C"}
    /\ suffix[3] \in {"s", "S"}
    /\ suffix[4] \in {"v", "V"}
\* A failing call hands back no table.
NoTable(r) == r.kind = "raise" /\ "value" \notin DOMAIN r

\* C11: load_shots_csv rejects bad input in a fixed order and returns no
\* table when it fails: a missing path fails with FileNotFoundError whatever
\* its extension; an existing path whose suffix is not .csv (any case) fails
\* with ValueError; an unparsable file and a file with zero data rows fail
\* with DataValidationError; only then are missing columns reported.
C11_LoadRejectsInFixedOrder ==
    call.op = "load_shots_csv" =>
        /\ ret.kind = "raise" => NoTable(ret)
        /\ IF ~file.exists THEN ret.kind = "raise" /\ ret.exc = "FileNotFoundError"
           ELSE IF ~IsCsvSuffix(file.suffix)
           THEN ret.kind = "raise" /\ ret.exc = "ValueError"
           ELSE IF ~file.parsable
           THEN ret.kind = "raise" /\ ret.exc = "DataValidationError"
           ELSE IF Length(table) = 0
           THEN /\ ret.kind = "raise" /\ ret.exc = "DataValidationError"
                /\ ret.msg.text = "CSV file is empty (no data rows)"
           ELSE IF call.validate /\ AbsentRequired(table) # <<>>
           THEN ret = RaisedMissingColumns(AbsentRequired(table))
           ELSE ret.kind = "raise" => ret.exc \notin {"FileNotFoundError", "ValueError",
                                                      "MissingColumnsError"}
\* A missing path with a wrong extension was reported as missing.
C11_Witness ==
    /\ call # NoCall /\ call.op = "load_shots_csv"
    /\ ~file.exists /\ ~IsCsvSuffix(file.suffix)
    /\ ret.kind = "raise" /\ ret.exc = "FileNotFoundError"

(***************************************************************************)
(* Filtering a filtered table, as in the docstring example                 *)
(*   fox_shots = filter_shots(df, player_name="Fox")                       *)
(*   fox_threes = filter_shots(fox_shots, shot_type="3PT", made_only=True) *)
(***************************************************************************)
ComposeRows ==
    {r \in FilterRows : r["game_id"] = Some(Game22) \/ r["team"] = Some(SacLower)}
ComposeCriteria ==
    [player_name : {None, Some(<<"p">>), Some(<<"(">>)},
     player_id : {None, Some(1)},
     game_id : {None, Some(PyInt(22))},
     team : {None, Some(SAC)},
     period : {None, Some(1)},
     shot_type : {None, Some(Three)},
     made_only : {None, Some(TRUE), Some(FALSE)}]
\* The criteria sets that supply some of the criteria of c and nothing else.
SubCriteria(c) ==
    [player_name : {None, c.player_name}, player_id : {None, c.player_id},
     game_id : {None, c.game_id}, team : {None, c.team},
     period : {None, c.period}, shot_type : {None, c.shot_type},
     made_only : {None, c.made_only}]

InitCompose ==
    /\ table \in {Frame(REQUIRED_COLUMNS, rows) : rows \in SeqsUpTo(ComposeRows, MaxRows)}
    /\ file = NoFile
    /\ call = NoCall
    /\ ret = NoRet
    /\ NoApiClient
    /\ NoShotChart

\* filter_shots(filter_shots(table, first), criteria)
FilterFiltered ==
    /\ call = NoCall
    /\ \E c \in ComposeCriteria :
        \E first \in SubCriteria(c) :
            /\ call' = [op |-> "filter_filtered", first |-> first, criteria |-> c]
            /\ ret' = LET filtered == filter_shots(table, first)
                      IN  IF filtered.kind = "raise" THEN filtered
                          ELSE filter_shots(filtered.value, c)
    /\ UNCHANGED inputs

NextCompose == FilterFiltered
SpecCompose == InitCompose /\ [][NextCompose]_vars

\* C12: for criteria sets C and C' where C' contains every criterion of C,
\* filter_shots(filter_shots(T, C), C') is the same as filter_shots(T, C');
\* in particular filtering twice by C is the same as filtering once.
C12_FilteringComposes ==
    call.op = "filter_filtered" => ret = filter_shots(table, call.criteria)
\* A table of two rows was filtered by team and then by team and made_only,
\* and one row with its original label 1 came back.
C12_Witness ==
    /\ call.op = "filter_filtered"
    /\ Length(table) = 2
    /\ call.first = [NoCriteria EXCEPT !.team = Some(SAC)]
    /\ call.criteria = [NoCriteria EXCEPT !.team = Some(SAC),
                                          !.made_only = Some(FALSE)]
    /\ ret.kind = "return" /\ Length(ret.value) = 1 /\ ret.value.index = <<1>>

\* C13: filter_shots never changes the column set and never fails: for every
\* combination of criteria the output has exactly the input's columns in the
\* same order, and when no row satisfies the criteria the result is an empty
\* table, not an error.
C13_FilterKeepsColumnsAndNeverFails ==
    call.op = "filter_shots" =>
        /\ ret.kind = "return"
        /\ ret.value.columns = table.columns
        /\ Length(RowsSatisfying(table, call.criteria)) = 0 => Length(ret.value) = 0

(***************************************************************************)
(* The caller's table across filter_shots, get_shot_summary and            *)
(* convert_dtypes.  filter_shots only rebinds its local name filtered and  *)
(* get_shot_summary only reads df; convert_dtypes assigns columns to the   *)
(* object its local name df refers to.  A table read from a file is raw    *)
(* and goes to convert_dtypes; a table with no file is normalized.         *)
(***************************************************************************)
InitFrame ==
    /\ \/ /\ file = NoFile
          /\ table \in {Frame(REQUIRED_COLUMNS, rows) :
                          rows \in SeqsUpTo(ComposeRows, MaxRows)}
       \/ /\ file = CsvFile
          /\ table \in RawTables
    /\ call = NoCall
    /\ ret = NoRet
    /\ NoApiClient
    /\ NoShotChart

NextFrame ==
    \/ file = NoFile /\ FilterShots
    \/ file = NoFile /\ GetShotSummary
    \/ file = CsvFile /\ ConvertDtypes
SpecFrame == InitFrame /\ [][NextFrame]_vars

\* C14: filter_shots, get_shot_summary and convert_dtypes leave the caller's
\* input table unchanged (same rows, values and columns after the call as
\* before), for every input and every outcome including failure.
C14_InputTableUnchanged ==
    [][call'.op \in {"filter_shots", "get_shot_summary", "convert_dtypes"}
            => table' = table]_vars
\* convert_dtypes failed on a later column, after converting game_id in its
\* own copy, and the caller's game_id cell is still the raw integer.
C14_Witness ==
    /\ call.op = "convert_dtypes"
    /\ ret.kind = "raise" /\ ret.msg.column = "shot_made"
    /\ Length(table) > 0
    /\ table.rows[1]["game_id"] = PyInt(21)

(***************************************************************************)
(* NBAApiClient.  The remote API is the environment: every attempt of a    *)
(* request is answered by a response the action draws, either the frames   *)
(* of the endpoint or the message of the exception it raised.  DataFrames  *)
(* the client builds hold normalized cells: Some(v), or None for a null    *)
(* (pd.NA in an Int64 column, NaN in a float column, None in an object     *)
(* column).                                                                *)
(***************************************************************************)
API_RETRY_COUNT == 3
\* seconds
API_RETRY_DELAY == 1
KINGS_TEAM_ID == 1610612758
KINGS_ABBREVIATION == SAC
DEFAULT_SEASON == <<"2","0","2","4","-","2","5">>

\* pd.DataFrame()
EmptyDataFrame == Frame(<<>>, <<>>)
\* df.empty
IsEmpty(df) == Len(df.rows) = 0 \/ Len(df.columns) = 0

\* "rate" in str(e).lower() or "429" in str(e)
LooksRateLimited(error) ==
    \/ IsSubstring(<<"r","a","t","e">>, StrLower(error))
    \/ IsSubstring(<<"4","2","9">>, error)

\* What the attempts of one request came to: the outcome, the number of
\* attempts made (each one passes the throttle and calls the endpoint) and
\* the sleeps taken between them, in seconds.
Effort(outcome, attempts) == [outcome |-> outcome, attempts |-> attempts, slept |-> <<>>]

\* A backoff of the same length after every failed attempt.
FlatRetryDelay(attempt) == API_RETRY_DELAY

\* API_RETRY_DELAY * (attempt + 1): the sleep after failed attempt (0-based).
RetryDelay(attempt) == API_RETRY_DELAY * (attempt + 1)

RECURSIVE RetryLoop(_, _)
\* The loop body for attempt (0-based) and the attempts after it.
RetryLoop(responses, attempt) ==
    IF attempt >= API_RETRY_COUNT
    THEN Effort(Raised("NBAApiError",
                       [text |-> "API request failed after {API_RETRY_COUNT} attempts",
                        last_error |-> responses[attempt].error]),
                attempt)
    ELSE IF responses[attempt + 1].ok
    THEN Effort(Returned(IF Len(responses[attempt + 1].frames) > 0
                         THEN responses[attempt + 1].frames[1]
                         ELSE EmptyDataFrame),
                attempt + 1)
    ELSE IF LooksRateLimited(responses[attempt + 1].error)
    THEN Effort(Raised("RateLimitError",
                       [text |-> "API rate limit hit",
                        last_error |-> responses[attempt + 1].error]),
                attempt + 1)
    ELSE LET rest == RetryLoop(responses, attempt + 1)
         IN  [rest EXCEPT !.slept =
                (IF attempt < API_RETRY_COUNT - 1
                 THEN <<RetryDelay(attempt)>> ELSE <<>>) \o @]

_api_request_with_retry(responses) == RetryLoop(responses, 0)

(***************************************************************************)
(* _transform_shot_data: the API's frame renamed, cut down to our columns  *)
(* and converted.  The cells of the API's frames are Python values.        *)
(***************************************************************************)
COLUMN_MAPPING ==
    << <<"GAME_ID", "game_id">>, <<"PLAYER_ID", "player_id">>,
       <<"PLAYER_NAME", "player_name">>, <<"TEAM_NAME", "team_name">>,
       <<"TEAM_ABBREVIATION", "team">>, <<"PERIOD", "period">>,
       <<"MINUTES_REMAINING", "minutes_remaining">>,
       <<"SECONDS_REMAINING", "seconds_remaining">>,
       <<"SHOT_MADE_FLAG", "shot_made">>, <<"SHOT_TYPE", "shot_type">>,
       <<"SHOT_DISTANCE", "shot_distance">>, <<"LOC_X", "loc_x">>,
       <<"LOC_Y", "loc_y">>, <<"SHOT_ZONE_BASIC", "shot_zone">>,
       <<"ACTION_TYPE", "action_type">>, <<"EVENT_TYPE", "event_type">>,
       <<"SHOT_ZONE_AREA", "shot_zone_area">>,
       <<"SHOT_ZONE_RANGE", "shot_zone_range">>, <<"GAME_DATE", "game_date">>,
       <<"HTM", "home_team">>, <<"VTM", "away_team">> >>
\* df.rename(columns=COLUMN_MAPPING), for one column name.
Renamed(c) ==
    IF \E k \in 1..Len(COLUMN_MAPPING) : COLUMN_MAPPING[k][1] = c
    THEN COLUMN_MAPPING[CHOOSE k \in 1..Len(COLUMN_MAPPING) : COLUMN_MAPPING[k][1] = c][2]
    ELSE c
our_columns ==
    <<"game_id", "player_id", "player_name", "team", "period",
      "minutes_remaining", "seconds_remaining", "shot_made", "shot_type",
      "shot_distance", "loc_x", "loc_y", "shot_zone", "action_type">>
\* The columns cast with .astype('Int64'): a null cell becomes pd.NA.
Int64Columns == {"player_id", "period", "minutes_remaining", "seconds_remaining"}

\* df['TEAM_NAME'].map(team_abbrev_map), for one cell.
TeamAbbreviation(all_teams, name) ==
    IF name.t = "str" /\ \E k \in 1..Len(all_teams) : all_teams[k].full_name = name.v
    THEN PyString(all_teams[CHOOSE k \in 1..Len(all_teams) :
                                /\ all_teams[k].full_name = name.v
                                /\ \A j \in (k + 1)..Len(all_teams) :
                                        all_teams[j].full_name # name.v].abbreviation)
    ELSE PyNaN
\* The frame with TEAM_ABBREVIATION derived from TEAM_NAME where it lacks it.
WithTeamAbbreviation(df, all_teams) ==
    IF "TEAM_ABBREVIATION" \notin SeqToSet(df.columns) /\ "TEAM_NAME" \in SeqToSet(df.columns)
    THEN [columns |-> Append(df.columns, "TEAM_ABBREVIATION"),
          index |-> df.index,
          rows |-> [i \in 1..Length(df) |->
                      [c \in SeqToSet(df.columns) \cup {"TEAM_ABBREVIATION"} |->
                          IF c = "TEAM_ABBREVIATION"
                          THEN TeamAbbreviation(all_teams, df.rows[i]["TEAM_NAME"])
                          ELSE df.rows[i][c]]]]
    ELSE df

\* The conversion of one cell of the column named col (our name).
TransformCell(col, raw) ==
    IF col = "shot_made"
    THEN CASE raw.t = "int" -> Some(raw.n # 0)
           [] raw.t = "float" -> Some(raw.tenths # 0)
           [] raw.t = "bool" -> Some(raw.b)
           [] raw.t = "nan" -> Some(TRUE)
    ELSE IF col \in Int64Columns THEN AsTypeInt64(raw)
    ELSE IF col \in {"shot_distance", "loc_x", "loc_y"}
    THEN AsTypeFloat(ToNumericCoerce(raw))
    ELSE CASE raw.t = "str" -> Some(raw.v)
           [] raw.t = "int" -> Some(raw.n)
           [] raw.t = "nan" -> None

_transform_shot_data(df, all_teams) ==
    IF IsEmpty(df) THEN EmptyDataFrame
    ELSE LET named == WithTeamAbbreviation(df, all_teams)
             available_columns ==
                SelectSeq(our_columns,
                          LAMBDA c : \E j \in 1..Len(named.columns) :
                                        Renamed(named.columns[j]) = c)
             Source(c) == named.columns[CHOOSE j \in 1..Len(named.columns) :
                                            Renamed(named.columns[j]) = c]
         IN  [columns |-> available_columns,
              index |-> named.index,
              rows |-> [i \in 1..Length(named) |->
                          [c \in SeqToSet(available_columns) |->
                              TransformCell(c, named.rows[i][Source(c)])]]]

(***************************************************************************)
(* The cache directory: one JSON file per cache key.  A file is valid      *)
(* (its text is the JSON of data) or not (json.load raises                 *)
(* JSONDecodeError).                                                       *)
(***************************************************************************)
\* cache_key.replace("/", "_").replace(":", "_") + ".json"
_get_cache_path(cache_key) ==
    [i \in 1..Len(cache_key) |->
        IF cache_key[i] \in {"/", ":"} THEN "_" ELSE cache_key[i]] \o <<".","j","s","o","n">>

\* df.to_dict(orient='records'): the rows as dicts keyed by column, in
\* column order; no row, no keys.
ToRecords(df) ==
    IF Length(df) = 0 THEN [keys |-> <<>>, rows |-> <<>>]
    ELSE [keys |-> df.columns, rows |-> df.rows]
\* pd.DataFrame(data) of a list of dicts: a fresh RangeIndex.
FromRecords(data) == Frame(data.keys, data.rows)
\* json.dump raises TypeError on pd.NA, which is what a null cell of an
\* Int64 column is.
JsonDumpFails(df) ==
    \E i \in 1..Length(df) :
        \E c \in Int64Columns \cap SeqToSet(df.columns) : df.rows[i][c] = None

HasFile(files, path) == \E f \in files : f.name = path
FileAt(files, path) == CHOOSE f \in files : f.name = path

\* _load_from_cache that never finds the file.
LoadNeverHits(self, files, cache_key) == None

\* _load_from_cache that takes whatever file it finds for a table.
LoadTrustsCorrupt(self, files, cache_key) ==
    IF ~self.use_cache THEN None
    ELSE IF HasFile(files, _get_cache_path(cache_key))
    THEN Some(FromRecords(FileAt(files, _get_cache_path(cache_key)).data))
    ELSE None

_load_from_cache(self, files, cache_key) ==
    IF ~self.use_cache THEN None
    ELSE IF HasFile(files, _get_cache_path(cache_key))
            /\ FileAt(files, _get_cache_path(cache_key)).valid
    THEN Some(FromRecords(FileAt(files, _get_cache_path(cache_key)).data))
    ELSE None

\* _save_to_cache that writes whether or not caching is on.
SaveWhenDisabled(self, files, cache_key, df, writable) ==
    IF ~writable THEN files
    ELSE {f \in files : f.name # _get_cache_path(cache_key)}
         \cup { [name |-> _get_cache_path(cache_key),
                 valid |-> ~JsonDumpFails(df),
                 data |-> IF JsonDumpFails(df) THEN ToRecords(EmptyDataFrame)
                          ELSE ToRecords(df)] }

\* The directory after _save_to_cache; writable is whether open(path, 'w')
\* succeeds.  A dump that raises leaves the file it opened truncated.
_save_to_cache(self, files, cache_key, df, writable) ==
    IF ~self.use_cache \/ ~writable THEN files
    ELSE {f \in files : f.name # _get_cache_path(cache_key)}
         \cup { [name |-> _get_cache_path(cache_key),
                 valid |-> ~JsonDumpFails(df),
                 data |-> IF JsonDumpFails(df) THEN ToRecords(EmptyDataFrame)
                          ELSE ToRecords(df)] }

\* What a public operation came to: its result, the cache directory after
\* it, the number of requests it sent to the remote API and the cache paths
\* it looked for.
Done(r, files, requests) ==
    [ret |-> r, cache |-> files, requests |-> requests, looked |-> <<>>]
\* The operation went through _load_from_cache(cache_key) on its way: with
\* caching on, that looks for the key's file.
Looked(done, self, cache_key) ==
    [done EXCEPT !.looked = IF self.use_cache THEN <<_get_cache_path(cache_key)>>
                            ELSE <<>>]

\* team_id or 'all'
TeamOrAll(team_id) ==
    IF IsNone(team_id) \/ Val(team_id) = 0 THEN <<"a","l","l">> ELSE NatToStr(Val(team_id))

get_game_shots(self, files, all_teams, game_id, team_id, responses, writable) ==
    LET cache_key == <<"g","a","m","e","_","s","h","o","t","s","_">> \o game_id \o <<"_">> \o TeamOrAll(team_id)
        cached == _load_from_cache(self, files, cache_key)
        fetched == _api_request_with_retry(responses)
        result == _transform_shot_data(fetched.outcome.value, all_teams)
        after_lookup ==
            IF ~IsNone(cached) THEN Done(Returned(Val(cached)), files, 0)
            ELSE IF fetched.outcome.kind = "raise"
            THEN Done(Raised("NBAApiError",
                             [text |-> "Failed to fetch game shots",
                              cause |-> fetched.outcome.exc]),
                      files, fetched.attempts)
            ELSE IF IsEmpty(fetched.outcome.value)
            THEN Done(Raised("GameNotFoundError",
                             [text |-> "No shots found for game", game_id |-> game_id]),
                      files, fetched.attempts)
            ELSE Done(Returned(result),
                      _save_to_cache(self, files, cache_key, result, writable),
                      fetched.attempts)
    IN  Looked(after_lookup, self, cache_key)

\* clear_cache: every *.json file of the directory is deleted and counted.
clear_cache(self, files) ==
    Done(Returned(Cardinality(files)), {}, 0)

(***************************************************************************)
(* A client used for several calls on one cache directory.  history keeps  *)
(* each call with its result, the requests it sent and what they were      *)
(* answered, the cache paths it looked for and the names of the valid      *)
(* files it left in the directory.                                         *)
(***************************************************************************)
MaxCalls == 2

ApiColumns ==
    <<"GAME_ID", "PLAYER_ID", "PLAYER_NAME", "TEAM_ABBREVIATION", "TEAM_NAME",
      "PERIOD", "MINUTES_REMAINING", "SECONDS_REMAINING", "SHOT_MADE_FLAG",
      "SHOT_TYPE", "SHOT_DISTANCE", "LOC_X", "LOC_Y", "SHOT_ZONE_BASIC",
      "ACTION_TYPE">>
Game1 == <<"0","0","2","2","4","0","0","0","0","1">>
Kings == <<"S","a","c","r","a","m","e","n","t","o"," ","K","i","n","g","s">>
ApiRow ==
    [GAME_ID |-> PyString(Game1), PLAYER_ID |-> PyInt(1628368),
     PLAYER_NAME |-> PyString(Fox), TEAM_ABBREVIATION |-> PyString(SAC),
     TEAM_NAME |-> PyString(Kings), PERIOD |-> PyInt(1),
     MINUTES_REMAINING |-> PyInt(10), SECONDS_REMAINING |-> PyInt(30),
     SHOT_MADE_FLAG |-> PyInt(1), SHOT_TYPE |-> PyString(Two),
     SHOT_DISTANCE |-> PyInt(5), LOC_X |-> PyInt(15), LOC_Y |-> PyInt(25),
     SHOT_ZONE_BASIC |-> PyString(Zone), ACTION_TYPE |-> PyString(Jump)]
\* A missed three in the second period, and a shot whose period is null.
ApiRowMissed ==
    [ApiRow EXCEPT !.PERIOD = PyInt(2), !.SHOT_MADE_FLAG = PyInt(0),
                   !.SHOT_TYPE = PyString(Three), !.LOC_X = PyInt(-180)]
ApiRowNoPeriod == [ApiRow EXCEPT !.PERIOD = PyNaN]

MOCK_TEAMS ==
    << [id |-> KINGS_TEAM_ID, abbreviation |-> SAC, full_name |-> Kings],
       [id |-> 1610612747, abbreviation |-> LAL, full_name |-> <<"L","o","s"," ","A","n","g","e","l","e","s"," ","L","a","k","e","r","s">>] >>

\* The endpoint's answers: frames, no frame at all, or an exception.
Answer(frames) == [ok |-> TRUE, frames |-> frames, error |-> <<>>]
Failure(error) == [ok |-> FALSE, frames |-> <<>>, error |-> error]
TimedOut == Failure(<<"R","e","a","d"," ","t","i","m","e","d"," ","o","u","t">>)

\* What the endpoint answers in the runs below: two shots, one shot with a
\* null period, no shot.
TwoShots == Answer(<<Frame(ApiColumns, <<ApiRow, ApiRowMissed>>)>>)
ShotWithoutPeriod == Answer(<<Frame(ApiColumns, <<ApiRowNoPeriod>>)>>)
NoShots == Answer(<<EmptyDataFrame>>)
RateLimited == Failure(<<"R","a","t","e"," ","l","i","m","i","t"," ","e","x","c","e","e","d","e","d">>)
CacheExchanges ==
    { <<TwoShots>>, <<TimedOut, TwoShots>>, <<ShotWithoutPeriod>>, <<NoShots>>,
      <<RateLimited>>, <<TimedOut, TimedOut, TimedOut>> }
TeamArgs == {None, Some(0), Some(KINGS_TEAM_ID)}

\* The file an earlier client left in the directory for Game1's shots.
LeftByEarlierClient ==
    [name |-> _get_cache_path(<<"g","a","m","e","_","s","h","o","t","s","_">>
                              \o Game1 \o <<"_","a","l","l">>),
     valid |-> TRUE,
     data |-> ToRecords(_transform_shot_data(TwoShots.frames[1], MOCK_TEAMS))]

InitCache ==
    /\ table = EmptyFrame
    /\ file = NoFile
    /\ call = NoCall
    /\ ret = NoRet
    /\ client \in [use_cache : BOOLEAN]
    /\ cache \in {{}, {LeftByEarlierClient}}
    /\ sent = <<>>
    /\ history = <<>>
    /\ static = [players |-> <<>>, teams |-> MOCK_TEAMS]
    /\ NoShotChart
    /\ clock = 0

\* The call is over: its result, the directory and the requests it sent, as
\* the remote API answered them, are recorded.
Finish(c, done, responses) ==
    /\ call' = c
    /\ ret' = done.ret
    /\ cache' = done.cache
    /\ sent' = sent \o [k \in 1..done.requests |->
                            [ok |-> responses[k].ok, error |-> responses[k].error]]
    /\ history' = Append(history, [call |-> c, ret |-> done.ret,
                                   requests |-> done.requests,
                                   answered |-> [k \in 1..done.requests |-> responses[k]],
                                   looked |-> done.looked,
                                   kept |-> {f.name : f \in {g \in done.cache : g.valid}}])
    /\ UNCHANGED <<table, file, client, static, charting, clock>>

GetGameShots ==
    /\ Len(history) < MaxCalls
    /\ \E team_id \in TeamArgs, writable \in BOOLEAN,
          responses \in CacheExchanges :
        Finish([op |-> "get_game_shots", game_id |-> Game1, team_id |-> team_id],
               get_game_shots(client, cache, static.teams, Game1, team_id,
                              responses, writable),
               responses)

ClearCache ==
    /\ Len(history) < MaxCalls
    /\ Finish([op |-> "clear_cache"], clear_cache(client, cache), <<>>)

NextCache == GetGameShots \/ ClearCache
SpecCache == InitCache /\ [][NextCache]_vars

\* The name of the cache file of a get_game_shots call.
EntryName(c) ==
    <<"g","a","m","e","_","s","h","o","t","s","_">> \o c.game_id \o <<"_">>
    \o (IF c.team_id \in {None, Some(0)} THEN <<"a","l","l">> ELSE NatToStr(c.team_id[1]))
    \o <<".","j","s","o","n">>
\* The later call was served without a request and with a table shaped as
\* the earlier one's.
ServedAs(later, earlier) ==
    /\ later.requests = 0
    /\ later.ret.kind = "return"
    /\ Len(later.ret.value.rows) = Len(earlier.ret.value.rows)
    /\ later.ret.value.columns = earlier.ret.value.columns

\* C15 as claimed: with caching enabled, after one successful
\* get_game_shots(g, t) every later get_game_shots(g, t) on the same cache
\* directory issues zero remote requests and returns a table with the same
\* row count and columns as the first result.
C15_EveryLaterCallIsAHit ==
    client.use_cache =>
        \A i \in 1..Len(history) : \A j \in (i + 1)..Len(history) :
            ( /\ history[i].call.op = "get_game_shots"
              /\ history[i].ret.kind = "return"
              /\ history[j].call = history[i].call )
            => ServedAs(history[j], history[i])

\* C15 amended: with caching enabled, after a successful get_game_shots(g, t)
\* that left its result in the cache, every later get_game_shots(g, t) made
\* while that cache file is still there issues zero remote requests and
\* returns a table with the same row count and columns as the first result.
C15_LaterCallHitsWhileEntryKept ==
    client.use_cache =>
        \A i \in 1..Len(history) : \A j \in (i + 1)..Len(history) :
            ( /\ history[i].call.op = "get_game_shots"
              /\ history[i].ret.kind = "return"
              /\ history[j].call = history[i].call
              /\ \A k \in i..(j - 1) : EntryName(history[i].call) \in history[k].kept )
            => ServedAs(history[j], history[i])
\* A first call fetched two shots with one request and cached them; the same
\* call again sent nothing and returned two shots.
C15_Witness ==
    /\ client.use_cache
    /\ Len(history) = 2
    /\ history[1].call.op = "get_game_shots" /\ history[2].call = history[1].call
    /\ history[1].requests = 1 /\ history[1].ret.kind = "return"
    /\ EntryName(history[1].call) \in history[1].kept
    /\ history[2].requests = 0 /\ history[2].ret.kind = "return"
    /\ Len(history[2].ret.value.rows) = 2
    /\ Len(sent) = 1

(***************************************************************************)
(* Lookups in the reference lists, and the operations built on them.       *)
(***************************************************************************)
\* The first position of seq whose element satisfies Match, or 0.
FirstAt(seq, Match(_)) ==
    IF \E k \in 1..Len(seq) : Match(seq[k])
    THEN CHOOSE k \in 1..Len(seq) :
            Match(seq[k]) /\ \A j \in 1..(k - 1) : ~Match(seq[j])
    ELSE 0

\* find_player_id with the exact-match pass left out.
FindPlayerBySubstringOnly(all_players, player_name) ==
    LET Partial(player) == IsSubstring(StrLower(player_name), StrLower(player.full_name))
    IN  IF FirstAt(all_players, Partial) # 0
        THEN Returned(all_players[FirstAt(all_players, Partial)].id)
        ELSE Raised("PlayerNotFoundError",
                    [text |-> "No player found matching", player_name |-> player_name])

find_player_id(all_players, player_name) ==
    LET Exact(player) == StrLower(player.full_name) = StrLower(player_name)
        Partial(player) == IsSubstring(StrLower(player_name), StrLower(player.full_name))
    IN  IF FirstAt(all_players, Exact) # 0
        THEN Returned(all_players[FirstAt(all_players, Exact)].id)
        ELSE IF FirstAt(all_players, Partial) # 0
        THEN Returned(all_players[FirstAt(all_players, Partial)].id)
        ELSE Raised("PlayerNotFoundError",
                    [text |-> "No player found matching", player_name |-> player_name])

find_team_id(all_teams, team_abbrev) ==
    LET Same(team) == StrUpper(team.abbreviation) = StrUpper(team_abbrev)
    IN  IF FirstAt(all_teams, Same) # 0
        THEN Returned(all_teams[FirstAt(all_teams, Same)].id)
        ELSE Raised("NBAApiError", [text |-> "Team not found", team |-> team_abbrev])

get_player_shots(self, files, refs, player_name, season, team_id, responses, writable) ==
    LET player_id == find_player_id(refs.players, player_name)
        cache_key == <<"p","l","a","y","e","r","_","s","h","o","t","s","_">> \o NatToStr(player_id.value) \o <<"_">>
                     \o season \o <<"_">> \o TeamOrAll(team_id)
        cached == _load_from_cache(self, files, cache_key)
        fetched == _api_request_with_retry(responses)
        result == _transform_shot_data(fetched.outcome.value, refs.teams)
        after_lookup ==
            IF ~IsNone(cached) THEN Done(Returned(Val(cached)), files, 0)
            ELSE IF fetched.outcome.kind = "raise"
            THEN Done(Raised("NBAApiError",
                             [text |-> "Failed to fetch player shots",
                              cause |-> fetched.outcome.exc]),
                      files, fetched.attempts)
            ELSE Done(Returned(result),
                      _save_to_cache(self, files, cache_key, result, writable),
                      fetched.attempts)
    IN  IF player_id.kind = "raise" THEN Done(player_id, files, 0)
        ELSE Looked(after_lookup, self, cache_key)

\* The characters of an ISO date, in code-point order.
DateChars == <<"-">> \o DigitChars
CodePoint(c) == CHOOSE i \in 1..Len(DateChars) : DateChars[i] = c
\* a < b for Python strings
StrLess(a, b) ==
    \E k \in 1..Len(b) :
        /\ \A j \in 1..(k - 1) : j <= Len(a) /\ a[j] = b[j]
        /\ \/ k > Len(a)
           \/ k <= Len(a) /\ CodePoint(a[k]) < CodePoint(b[k])

\* The positions of rows ordered as sort_values(col) leaves them; the rows
\* the model sorts hold distinct values in col, none of them null.
RECURSIVE SortedPositions(_, _, _, _)
SortedPositions(rows, col, ascending, left) ==
    IF left = {} THEN <<>>
    ELSE LET first == CHOOSE i \in left :
                        \A j \in left \ {i} :
                            IF ascending THEN StrLess(rows[i][col].v, rows[j][col].v)
                            ELSE StrLess(rows[j][col].v, rows[i][col].v)
         IN  <<first>> \o SortedPositions(rows, col, ascending, left \ {first})
\* result.sort_values('game_date', ascending=True): oldest first.
SortOldestFirst(df) ==
    LET order == SortedPositions(df.rows, "game_date", TRUE, 1..Length(df))
    IN  [columns |-> df.columns,
         index |-> [k \in 1..Length(df) |-> df.index[order[k]]],
         rows |-> [k \in 1..Length(df) |-> df.rows[order[k]]]]
\* result.sort_values('game_date', ascending=False): most recent first.
SortMostRecentFirst(df) ==
    LET order == SortedPositions(df.rows, "game_date", FALSE, 1..Length(df))
    IN  [columns |-> df.columns,
         index |-> [k \in 1..Length(df) |-> df.index[order[k]]],
         rows |-> [k \in 1..Length(df) |-> df.rows[order[k]]]]

columns_to_keep == <<"GAME_ID", "GAME_DATE", "MATCHUP", "WL", "PTS", "PLUS_MINUS">>
\* result.rename(columns={...}), for one column name.
ScheduleName(c) ==
    CASE c = "GAME_ID" -> "game_id"
      [] c = "GAME_DATE" -> "game_date"
      [] c = "MATCHUP" -> "matchup"
      [] c = "WL" -> "wl"
      [] c = "PTS" -> "pts"
      [] c = "PLUS_MINUS" -> "plus_minus"

\* The schedule frame: the columns kept and renamed, sorted if it has dates.
Schedule(df) ==
    LET available == SelectSeq(columns_to_keep, LAMBDA c : c \in SeqToSet(df.columns))
        result == [columns |-> [k \in 1..Len(available) |-> ScheduleName(available[k])],
                   index |-> df.index,
                   rows |-> [i \in 1..Length(df) |->
                               [c \in {ScheduleName(available[k]) : k \in 1..Len(available)} |->
                                   df.rows[i][CHOOSE a \in SeqToSet(available) :
                                                  ScheduleName(a) = c]]]]
    IN  IF "game_date" \in SeqToSet(result.columns) THEN SortMostRecentFirst(result)
        ELSE result

get_team_schedule(self, files, all_teams, team, season, responses, writable) ==
    LET team_id == find_team_id(all_teams, team)
        cache_key == <<"t","e","a","m","_","s","c","h","e","d","u","l","e","_">> \o team \o <<"_">> \o season
        cached == _load_from_cache(self, files, cache_key)
        fetched == _api_request_with_retry(responses)
        result == Schedule(fetched.outcome.value)
        after_lookup ==
            IF ~IsNone(cached) THEN Done(Returned(Val(cached)), files, 0)
            ELSE IF fetched.outcome.kind = "raise"
            THEN Done(Raised("NBAApiError",
                             [text |-> "Failed to fetch team schedule",
                              cause |-> fetched.outcome.exc]),
                      files, fetched.attempts)
            ELSE IF IsEmpty(fetched.outcome.value)
            THEN Done(Returned(EmptyDataFrame), files, fetched.attempts)
            ELSE Done(Returned(result),
                      _save_to_cache(self, files, cache_key, result, writable),
                      fetched.attempts)
    IN  IF team_id.kind = "raise" THEN Done(team_id, files, 0)
        ELSE Looked(after_lookup, self, cache_key)

\* recent.get(key, default) on the first row of the schedule
GetOr(row, key, default) == IF key \in DOMAIN row THEN row[key] ELSE default
Unknown == PyString(<<"U","n","k","n","o","w","n">>)

get_recent_kings_game(self, files, all_teams, season, responses, writable) ==
    LET fetched == get_team_schedule(self, files, all_teams, SAC, season,
                                     responses, writable)
        schedule == fetched.ret.value
        recent == schedule.rows[1]
    IN  IF fetched.ret.kind = "raise" THEN fetched
        ELSE IF IsEmpty(schedule)
        THEN [fetched EXCEPT !.ret = Raised("GameNotFoundError",
                                            [text |-> "No Kings games found for season"])]
        ELSE IF "game_id" \notin DOMAIN recent
        THEN [fetched EXCEPT !.ret = Raised("KeyError", [text |-> "game_id"])]
        ELSE [fetched EXCEPT !.ret =
                Returned([game_id |-> recent["game_id"],
                          date |-> GetOr(recent, "game_date", Unknown),
                          matchup |-> GetOr(recent, "matchup", Unknown),
                          result |-> GetOr(recent, "wl", Unknown),
                          points |-> GetOr(recent, "pts", PyInt(0))])]

(***************************************************************************)
(* One call of a public operation against a remote API that answers each  *)
(* attempt as scripted: responses[k] is what attempt k gets, if it is      *)
(* made.                                                                   *)
(***************************************************************************)
DeAaronFox == <<"D","e","'","A","a","r","o","n"," ","F","o","x">>
DomantasSabonis == <<"D","o","m","a","n","t","a","s"," ","S","a","b","o","n","i","s">>
KeeganMurray == <<"K","e","e","g","a","n"," ","M","u","r","r","a","y">>
MOCK_PLAYERS ==
    << [id |-> 1628368, full_name |-> DeAaronFox],
       [id |-> 1629029, full_name |-> DomantasSabonis],
       [id |-> 1628398, full_name |-> KeeganMurray] >>

ScheduleColumns == <<"TEAM_ID", "GAME_ID", "GAME_DATE", "MATCHUP", "WL", "PTS", "PLUS_MINUS">>
GameRow(game_id, game_date, matchup, wl, pts, plus_minus) ==
    [TEAM_ID |-> PyInt(KINGS_TEAM_ID), GAME_ID |-> PyString(game_id),
     GAME_DATE |-> PyString(game_date), MATCHUP |-> PyString(matchup),
     WL |-> PyString(wl), PTS |-> PyInt(pts), PLUS_MINUS |-> PyInt(plus_minus)]
\* The three games of MOCK_SCHEDULE_DATA.
MOCK_SCHEDULE_DATA ==
    << GameRow(<<"0","0","2","2","4","0","0","0","0","3">>, <<"2","0","2","4","-","0","1","-","0","3">>, <<"S","A","C"," ","v","s","."," ","L","A","L">>, <<"W">>, 120, 10),
       GameRow(<<"0","0","2","2","4","0","0","0","0","2">>, <<"2","0","2","4","-","0","1","-","0","1">>, <<"S","A","C"," ","@"," ","G","S","W">>, <<"L">>, 108, -5),
       GameRow(<<"0","0","2","2","4","0","0","0","0","1">>, <<"2","0","2","3","-","1","2","-","3","0">>, <<"S","A","C"," ","v","s","."," ","P","H","X">>, <<"W">>, 115, 8) >>
ThreeGames == Answer(<<Frame(ScheduleColumns, MOCK_SCHEDULE_DATA)>>)
NoGames == Answer(<<Frame(ScheduleColumns, <<>>)>>)
TooManyRequests == Failure(<<"4","2","9"," ","C","l","i","e","n","t"," ","E","r","r","o","r",":"," ","T","o","o"," ","M","a","n","y"," ","R","e","q","u","e","s","t","s">>)

\* Every script of API_RETRY_COUNT answers drawn from answers.
Exchanges(answers) == [1..API_RETRY_COUNT -> answers]
ShotAnswers == {TwoShots, NoShots, TimedOut, RateLimited, TooManyRequests}
ScheduleAnswers == {ThreeGames, NoGames, TimedOut, RateLimited, TooManyRequests}
PlayerArgs == {DeAaronFox, <<"s","a","b","o","n","i","s">>, <<"N","o","b","o","d","y">>}
TeamNames == {SAC, <<"s","a","c">>, <<"X","X","X">>}

InitRemote ==
    /\ table = EmptyFrame
    /\ file = NoFile
    /\ call = NoCall
    /\ ret = NoRet
    /\ client \in [use_cache : BOOLEAN]
    /\ cache = {}
    /\ sent = <<>>
    /\ history = <<>>
    /\ static = [players |-> MOCK_PLAYERS, teams |-> MOCK_TEAMS]
    /\ NoShotChart
    /\ clock = 0

RemoteGameShots ==
    /\ history = <<>>
    /\ \E team_id \in TeamArgs, responses \in Exchanges(ShotAnswers) :
        Finish([op |-> "get_game_shots", game_id |-> Game1, team_id |-> team_id],
               get_game_shots(client, cache, static.teams, Game1, team_id,
                              responses, TRUE),
               responses)

RemotePlayerShots ==
    /\ history = <<>>
    /\ \E player_name \in PlayerArgs, team_id \in TeamArgs,
          responses \in Exchanges(ShotAnswers) :
        Finish([op |-> "get_player_shots", player_name |-> player_name,
                season |-> DEFAULT_SEASON, team_id |-> team_id],
               get_player_shots(client, cache, static, player_name, DEFAULT_SEASON,
                                team_id, responses, TRUE),
               responses)

RemoteTeamSchedule ==
    /\ history = <<>>
    /\ \E team \in TeamNames, responses \in Exchanges(ScheduleAnswers) :
        Finish([op |-> "get_team_schedule", team |-> team, season |-> DEFAULT_SEASON],
               get_team_schedule(client, cache, static.teams, team, DEFAULT_SEASON,
                                 responses, TRUE),
               responses)

NextRemote == RemoteGameShots \/ RemotePlayerShots \/ RemoteTeamSchedule
SpecRemote == InitRemote /\ [][NextRemote]_vars

\* What the remote API says when it limits the rate of requests.
IsRateLimitResponse(answer) ==
    ~answer.ok /\ answer.error \in {RateLimited.error, TooManyRequests.error}

\* C16: when an attempt of a public operation (get_game_shots,
\* get_player_shots, get_team_schedule) is answered by a rate-limit response,
\* no further attempt is made and the operation fails with RateLimitError,
\* not with the generic NBAApiError.
C16_RateLimitSurfacesUnretried ==
    \A k \in 1..Len(sent) :
        IsRateLimitResponse(sent[k]) =>
            /\ k = Len(sent)
            /\ ret.kind = "raise"
            /\ ret.exc = "RateLimitError"

(***************************************************************************)
(* Player lookups against reference lists of up to MaxPlayers players.     *)
(***************************************************************************)
MaxPlayers == 2

KrisMurray == <<"K","r","i","s"," ","M","u","r","r","a","y">>
Murray == <<"M","u","r","r","a","y">>
\* players.get_players(): full names may repeat, ids do not.
FullNames == {KeeganMurray, KrisMurray, Murray}
ReferenceLists ==
    UNION { { [k \in 1..n |-> [id |-> 1628390 + k, full_name |-> names[k]]] :
                names \in [1..n -> FullNames] } : n \in 0..MaxPlayers }
Queries == {<<"m","u","r","r","a","y">>, <<"K","R","I","S"," ","M","U","R","R","A","Y">>, <<"k","e","e","g","a","n">>, <<"F","o","x">>, <<>>}
LookupExchanges == Exchanges({TwoShots, TimedOut})

InitLookup ==
    /\ table = EmptyFrame
    /\ file = NoFile
    /\ call = NoCall
    /\ ret = NoRet
    /\ client \in [use_cache : BOOLEAN]
    /\ cache = {}
    /\ sent = <<>>
    /\ history = <<>>
    /\ static \in [players : ReferenceLists, teams : {MOCK_TEAMS}]
    /\ NoShotChart
    /\ clock = 0

FindPlayerId ==
    /\ history = <<>>
    /\ \E player_name \in Queries :
        Finish([op |-> "find_player_id", player_name |-> player_name],
               Done(find_player_id(static.players, player_name), cache, 0),
               <<>>)

GetPlayerShots ==
    /\ history = <<>>
    /\ \E player_name \in Queries, responses \in LookupExchanges :
        Finish([op |-> "get_player_shots", player_name |-> player_name,
                season |-> DEFAULT_SEASON, team_id |-> None],
               get_player_shots(client, cache, static, player_name, DEFAULT_SEASON,
                                None, responses, TRUE),
               responses)

NextLookup == FindPlayerId \/ GetPlayerShots
SpecLookup == InitLookup /\ [][NextLookup]_vars

\* The positions of the reference list whose full name equals, and contains,
\* the query, case ignored.
EqualsAt(query) ==
    {k \in 1..Len(static.players) :
        StrLower(static.players[k].full_name) = StrLower(query)}
ContainsAt(query) ==
    {k \in 1..Len(static.players) :
        IsSubstring(StrLower(query), StrLower(static.players[k].full_name))}
Earliest(positions) == CHOOSE k \in positions : \A j \in positions : k <= j

\* C17: find_player_id returns the id of a player whose full name equals the
\* query, case ignored, when there is one, even if a name that merely
\* contains the query comes earlier in the list; otherwise the id of the
\* first player whose full name contains the query; it raises
\* PlayerNotFoundError exactly when no full name contains the query.
\* get_player_shots for such a name raises PlayerNotFoundError without
\* looking into the cache or sending a request.
C17_ExactThenFirstSubstring ==
    /\ (call # NoCall /\ call.op = "find_player_id") =>
        /\ EqualsAt(call.player_name) # {} =>
              /\ ret.kind = "return"
              /\ \E k \in EqualsAt(call.player_name) : ret.value = static.players[k].id
        /\ (EqualsAt(call.player_name) = {} /\ ContainsAt(call.player_name) # {}) =>
              ret = Returned(static.players[Earliest(ContainsAt(call.player_name))].id)
        /\ (ret.kind = "raise" /\ ret.exc = "PlayerNotFoundError")
              <=> ContainsAt(call.player_name) = {}
        /\ ret.kind = "raise" => ret.exc = "PlayerNotFoundError"
    /\ (call # NoCall /\ call.op = "get_player_shots"
        /\ ContainsAt(call.player_name) = {}) =>
        /\ ret.kind = "raise" /\ ret.exc = "PlayerNotFoundError"
        /\ history[1].looked = <<>>
        /\ sent = <<>>
        /\ cache = {}
\* "murray" was looked up in a list where Keegan Murray comes before Murray:
\* the second player's id came back.
C17_Witness ==
    /\ call # NoCall /\ call.op = "find_player_id"
    /\ Len(static.players) = 2
    /\ 1 \in ContainsAt(call.player_name) \ EqualsAt(call.player_name)
    /\ 2 \in EqualsAt(call.player_name)
    /\ ret = Returned(static.players[2].id)

(***************************************************************************)
(* Looking for games: get_game_shots and get_recent_kings_game on one      *)
(* cache directory, the schedule endpoint listing up to MaxGames games in  *)
(* any order.                                                              *)
(***************************************************************************)
MaxGames == 2

\* The listings of n distinct games of MOCK_SCHEDULE_DATA.
Listings(n) ==
    {games \in [1..n -> SeqToSet(MOCK_SCHEDULE_DATA)] :
        \A i, j \in 1..n : games[i] = games[j] => i = j}
GameAnswers ==
    {Answer(<<Frame(ScheduleColumns, games)>>) :
        games \in UNION {Listings(n) : n \in 0..MaxGames}}
ScheduleExchanges ==
    {<<answer>> : answer \in GameAnswers}
    \cup {<<Answer(<<>>)>>, <<TimedOut, ThreeGames>>, <<TimedOut, TimedOut, TimedOut>>}
GameExchanges == {<<TwoShots>>, <<NoShots>>, <<Answer(<<>>)>>, <<TimedOut, NoShots>>}

InitSchedule ==
    /\ table = EmptyFrame
    /\ file = NoFile
    /\ call = NoCall
    /\ ret = NoRet
    /\ client \in [use_cache : BOOLEAN]
    /\ cache = {}
    /\ sent = <<>>
    /\ history = <<>>
    /\ static = [players |-> MOCK_PLAYERS, teams |-> MOCK_TEAMS]
    /\ NoShotChart
    /\ clock = 0

FetchGameShots ==
    /\ Len(history) < MaxCalls
    /\ \E responses \in GameExchanges :
        Finish([op |-> "get_game_shots", game_id |-> Game1, team_id |-> None],
               get_game_shots(client, cache, static.teams, Game1, None,
                              responses, TRUE),
               responses)

GetRecentKingsGame ==
    /\ Len(history) < MaxCalls
    /\ \E responses \in ScheduleExchanges :
        Finish([op |-> "get_recent_kings_game", season |-> DEFAULT_SEASON],
               get_recent_kings_game(client, cache, static.teams, DEFAULT_SEASON,
                                     responses, TRUE),
               responses)

NextSchedule == FetchGameShots \/ GetRecentKingsGame
SpecSchedule == InitSchedule /\ [][NextSchedule]_vars

\* The call's request succeeded, and the rows it was answered with.
Succeeded(h) == h.requests > 0 /\ h.answered[h.requests].ok
AnsweredRows(h) ==
    IF Len(h.answered[h.requests].frames) = 0 THEN <<>>
    ELSE h.answered[h.requests].frames[1].rows
\* A date "YYYY-MM-DD" as the number YYYYMMDD.
Digit(c) == CHOOSE d \in 0..9 : DigitChars[d + 1] = c
DayNumber(date) ==
    Digit(date[1]) * 10000000 + Digit(date[2]) * 1000000 + Digit(date[3]) * 100000
    + Digit(date[4]) * 10000 + Digit(date[6]) * 1000 + Digit(date[7]) * 100
    + Digit(date[9]) * 10 + Digit(date[10])
LatestOf(rows) ==
    CHOOSE k \in 1..Len(rows) :
        \A j \in 1..Len(rows) : DayNumber(rows[j].GAME_DATE.v) <= DayNumber(rows[k].GAME_DATE.v)
GameNotFound(r) == r.kind = "raise" /\ r.exc = "GameNotFoundError"

\* C18: a get_game_shots whose request succeeds with zero shots raises
\* GameNotFoundError; a get_recent_kings_game whose schedule is empty raises
\* GameNotFoundError; one whose schedule has games returns the game with the
\* latest game_date, also when the schedule comes from the cache.
C18_NoGameOrTheLatest ==
    \A j \in 1..Len(history) :
        LET h == history[j]
        IN  /\ ( /\ h.call.op = "get_game_shots"
                 /\ Succeeded(h) /\ Len(AnsweredRows(h)) = 0 )
               => GameNotFound(h.ret)
            /\ ( /\ h.call.op = "get_recent_kings_game"
                 /\ Succeeded(h) /\ Len(AnsweredRows(h)) = 0 )
               => GameNotFound(h.ret)
            /\ ( /\ h.call.op = "get_recent_kings_game"
                 /\ Succeeded(h) /\ Len(AnsweredRows(h)) > 0 )
               => /\ h.ret.kind = "return"
                  /\ h.ret.value.game_id = AnsweredRows(h)[LatestOf(AnsweredRows(h))].GAME_ID
                  /\ h.ret.value.date = AnsweredRows(h)[LatestOf(AnsweredRows(h))].GAME_DATE
            /\ ( /\ h.call.op = "get_recent_kings_game"
                 /\ h.requests = 0 )
               => \E i \in 1..(j - 1) :
                    /\ history[i].call = h.call
                    /\ Succeeded(history[i]) /\ Len(AnsweredRows(history[i])) > 0
                    /\ h.ret = history[i].ret
\* The endpoint listed an older game before the latest one, and the latest
\* one came back.
C18_Witness ==
    /\ Len(history) >= 1
    /\ LET h == history[Len(history)]
       IN  /\ h.call.op = "get_recent_kings_game"
           /\ Succeeded(h) /\ Len(AnsweredRows(h)) = 2
           /\ LatestOf(AnsweredRows(h)) = 2
           /\ h.ret.kind = "return"
           /\ h.ret.value.game_id = AnsweredRows(h)[2].GAME_ID

(***************************************************************************)
(* ShotChart and the figures of pyplot.  figures is pyplot's registry in   *)
(* order of creation: who opened each figure, whether it is still open,    *)
(* and how many times the chart has passed it to plt.close.  A figure has  *)
(* one axes; both are named by the figure's position in the registry.      *)
(* The backend is a non-interactive one: plt.show() closes nothing.        *)
(***************************************************************************)
MaxFigures == 3

RequiredToPlot == <<"loc_x", "loc_y", "shot_made">>
\* plt.subplots(): the registry with a new open figure, opened by who.
Subplots(figs, who) == Append(figs, [by |-> who, open |-> TRUE, closed |-> 0])
\* plt.close(fig)
PltClose(figs, fig) == [figs EXCEPT ![fig].open = FALSE, ![fig].closed = @ + 1]
\* What a ShotChart method came to: the chart, the registry and the result.
After(self, figs, r) == [chart |-> self, figures |-> figs, ret |-> r]

\* The check that names only the first missing column.
FirstMissingToPlot(self) ==
    LET all == SelectSeq(RequiredToPlot, LAMBDA col : col \notin self.columns)
    IN  IF all = <<>> THEN <<>> ELSE <<all[1]>>

\* missing = [col for col in required if col not in self.shots_df.columns]
MissingToPlot(self) == SelectSeq(RequiredToPlot, LAMBDA col : col \notin self.columns)
\* ValueError when shots_df lacks a required column; TRUE when it passes.
_validate_data(self) == MissingToPlot(self) = <<>>

\* plot(ax): ax is None or the axes of a figure of the registry.
plot(self, figs, ax) ==
    IF ~_validate_data(self)
    THEN After(self, figs, Raised("ValueError", [text |-> "Missing required columns: ",
                                                 joined |-> MissingToPlot(self)]))
    ELSE IF IsNone(ax)
    THEN After([self EXCEPT !._fig = Some(Len(figs) + 1), !._ax = Some(Len(figs) + 1)],
               Subplots(figs, "chart"),
               Returned(<<Len(figs) + 1, Len(figs) + 1>>))
    ELSE After([self EXCEPT !._fig = ax, !._ax = ax], figs,
               Returned(<<Val(ax), Val(ax)>>))

\* What save() came to: as After, with the place saved to.
Saved(after, out) ==
    [chart |-> after.chart, figures |-> after.figures, ret |-> after.ret, disk |-> out]

\* save() that plots anew whether or not the chart holds a figure.
SaveReplots(self, figs, out, writable) ==
    LET plotted == plot(self, figs, None)
    IN  IF plotted.ret.kind = "raise" THEN Saved(plotted, out)
        ELSE IF ~writable
        THEN Saved([plotted EXCEPT !.ret = Raised("OSError", [text |-> "savefig"])],
                   [out EXCEPT !.dir = TRUE])
        ELSE Saved([plotted EXCEPT !.ret = Returned(None)],
                   [dir |-> TRUE, image |-> plotted.chart._fig])

\* save(filepath): out is the place filepath names, writable is whether
\* savefig can write the file there.  The image is named by the figure saved.
save(self, figs, out, writable) ==
    LET plotted == IF IsNone(self._fig) THEN plot(self, figs, None)
                   ELSE After(self, figs, Returned(None))
    IN  IF plotted.ret.kind = "raise" THEN Saved(plotted, out)
        ELSE IF ~writable
        THEN Saved([plotted EXCEPT !.ret = Raised("OSError", [text |-> "savefig"])],
                   [out EXCEPT !.dir = TRUE])
        ELSE Saved([plotted EXCEPT !.ret = Returned(None)],
                   [dir |-> TRUE, image |-> plotted.chart._fig])

show(self, figs) ==
    LET plotted == IF IsNone(self._fig) THEN plot(self, figs, None)
                   ELSE After(self, figs, Returned(None))
    IN  IF plotted.ret.kind = "raise" THEN plotted
        ELSE [plotted EXCEPT !.ret = Returned(None)]

\* close() that forgets the figure but keeps the axes.
CloseKeepsAxes(self, figs) ==
    IF ~IsNone(self._fig)
    THEN After([self EXCEPT !._fig = None], PltClose(figs, Val(self._fig)), Returned(None))
    ELSE After(self, figs, Returned(None))

close(self, figs) ==
    IF ~IsNone(self._fig)
    THEN After([self EXCEPT !._fig = None, !._ax = None],
               PltClose(figs, Val(self._fig)), Returned(None))
    ELSE After(self, figs, Returned(None))

\* ShotChart(shots_df): a chart over a table of the shot schema from which
\* some of the columns plotting needs may have been dropped.
InitChart ==
    /\ table = EmptyFrame
    /\ file = NoFile
    /\ call = NoCall
    /\ ret = NoRet
    /\ NoApiClient
    /\ chart \in [columns : {SeqToSet(REQUIRED_COLUMNS) \ absent :
                                absent \in SUBSET SeqToSet(RequiredToPlot)},
                  _fig : {None}, _ax : {None}]
    /\ figures = <<>>
    /\ disk \in [dir : BOOLEAN, image : {None}]

\* The method is over: the chart, the registry and the result are as it
\* left them.  A method that would open a figure runs while there is room.
Method(c, after) ==
    /\ Len(after.figures) <= MaxFigures
    /\ call' = c
    /\ ret' = after.ret
    /\ chart' = after.chart
    /\ figures' = after.figures
    /\ UNCHANGED <<table, file, api, disk>>

\* The caller's own fig, ax = plt.subplots().
CallerSubplots ==
    /\ Len(figures) < MaxFigures
    /\ call' = [op |-> "plt.subplots"]
    /\ ret' = Returned(<<Len(figures) + 1, Len(figures) + 1>>)
    /\ figures' = Subplots(figures, "caller")
    /\ UNCHANGED <<table, file, api, chart, disk>>

Plot == Method([op |-> "plot", ax |-> None], plot(chart, figures, None))
\* plot(ax=ax) on the axes of a figure the caller opened and still has open
PlotOnto ==
    \E fig \in {f \in 1..Len(figures) : figures[f].by = "caller" /\ figures[f].open} :
        Method([op |-> "plot", ax |-> Some(fig)], plot(chart, figures, Some(fig)))
Save ==
    \E writable \in BOOLEAN :
        LET after == save(chart, figures, disk, writable)
        IN  /\ Len(after.figures) <= MaxFigures
            /\ call' = [op |-> "save"]
            /\ ret' = after.ret
            /\ chart' = after.chart
            /\ figures' = after.figures
            /\ disk' = after.disk
            /\ UNCHANGED <<table, file, api>>
Show == Method([op |-> "show"], show(chart, figures))
Close == Method([op |-> "close"], close(chart, figures))

NextChart == CallerSubplots \/ Plot \/ PlotOnto \/ Save \/ Show \/ Close
SpecChart == InitChart /\ [][NextChart]_vars

\* C19: a close() raises nothing and leaves _fig and _ax None; if the chart
\* held a figure, that figure is released and no other figure is touched; if
\* it held none (never plotted, or already closed), nothing is released.
C19_CloseReleasesAndClears ==
    [][ call'.op = "close" =>
          /\ ret' = Returned(None)
          /\ chart'._fig = None /\ chart'._ax = None
          /\ Len(figures') = Len(figures)
          /\ \A f \in 1..Len(figures) :
                IF chart._fig = Some(f)
                THEN ~figures'[f].open /\ figures'[f].closed = figures[f].closed + 1
                ELSE figures'[f] = figures[f] ]_vars
\* A chart that plotted was closed: its figure is released, once, and the
\* chart holds nothing.
C19_Witness ==
    /\ call.op = "close"
    /\ chart._fig = None /\ chart._ax = None
    /\ Len(figures) = 1
    /\ figures[1] = [by |-> "chart", open |-> FALSE, closed |-> 1]

\* C20: whenever the last call on the chart is close(), every figure the
\* chart opened has been released exactly once (none is still open, none was
\* released twice), and no figure the caller opened has been released by
\* the chart.
C20_OwnFiguresReleasedOnce ==
    call.op = "close" =>
        \A f \in 1..Len(figures) :
            /\ figures[f].by = "chart" => ~figures[f].open /\ figures[f].closed = 1
            /\ figures[f].by = "caller" => figures[f].open /\ figures[f].closed = 0

Lacking == {"loc_x", "loc_y", "shot_made"} \ chart.columns

MaxShots == 2

COURT_WIDTH == 50
HALF_COURT_LENGTH == 47
BACKBOARD_OFFSET == 4
NBA_API_SCALE == 10
AxisMargin == 30

\* draw_court: ax.set_xlim(...), ax.set_ylim(...)
CourtLimits ==
    [xlim |-> << -((COURT_WIDTH \div 2) * NBA_API_SCALE) - 10,
                 (COURT_WIDTH \div 2) * NBA_API_SCALE + 10 >>,
     ylim |-> << -(BACKBOARD_OFFSET * NBA_API_SCALE) - 10,
                 (HALF_COURT_LENGTH - BACKBOARD_OFFSET) * NBA_API_SCALE + 10 >>]

(***************************************************************************)
(* draw_court: the free-throw circle and the three-point line.  The        *)
(* free-throw circle is in units; the three-point line, whose radius is    *)
(* 23.75 ft, is in hundredths of a unit.  Square roots are rounded down to *)
(* the hundredth of a unit; sines have four decimals, angles are in        *)
(* hundredths of a degree.                                                 *)
(***************************************************************************)
PAINT_LENGTH == 19
FREE_THROW_CIRCLE_RADIUS == 6
THREE_POINT_RADIUS == 2375          \* hundredths of a foot
THREE_POINT_CORNER_DISTANCE == 2200 \* hundredths of a foot

\* matplotlib.patches.Arc(center, width, height, theta1=, theta2=,
\* linestyle=): the angles are in degrees, counter-clockwise from the x axis.
Arc(center, width, height, theta1, theta2, linestyle) ==
    [center |-> center, width |-> width, height |-> height,
     theta1 |-> theta1, theta2 |-> theta2, linestyle |-> linestyle]

\* The free-throw circle with the half toward the basket solid.
FreeThrowCircleNearSolid ==
    LET ft_radius == FREE_THROW_CIRCLE_RADIUS * NBA_API_SCALE
        ft_line_y == (PAINT_LENGTH - BACKBOARD_OFFSET) * NBA_API_SCALE
    IN  << Arc(<<0, ft_line_y>>, ft_radius * 2, ft_radius * 2, 0, 180, "dashed"),
           Arc(<<0, ft_line_y>>, ft_radius * 2, ft_radius * 2, 180, 360, "solid") >>

\* ft_circle_top and ft_circle_bottom
FreeThrowCircle ==
    LET ft_radius == FREE_THROW_CIRCLE_RADIUS * NBA_API_SCALE
        ft_line_y == (PAINT_LENGTH - BACKBOARD_OFFSET) * NBA_API_SCALE
    IN  << Arc(<<0, ft_line_y>>, ft_radius * 2, ft_radius * 2, 0, 180, "solid"),
           Arc(<<0, ft_line_y>>, ft_radius * 2, ft_radius * 2, 180, 360, "dashed") >>

\* np.sqrt(v), rounded down
Sqrt(v) == CHOOSE r \in 0..(THREE_POINT_RADIUS * NBA_API_SCALE) :
                r * r <= v /\ v < (r + 1) * (r + 1)
\* sin of an angle given in hundredths of a degree, times 10^4: the angle in
\* radians (times 10^4), then x - x^3/3! + x^5/5! - x^7/7!.
Sin(angle) ==
    LET x == (angle * 31416) \div 18000
        x2 == (x * x) \div 10000
        x3 == (x2 * x) \div 10000
        x5 == (x3 * x2) \div 10000
        x7 == (x5 * x2) \div 10000
    IN  x - (x3 \div 6) + (x5 \div 120) - (x7 \div 5040)
\* np.degrees(np.arcsin(num / den)) for 0 <= num <= den
ArcSinDegrees(num, den) ==
    CHOOSE angle \in 0..9000 :
        /\ Sin(angle) * den >= num * 10000 \/ angle = 9000
        /\ \A smaller \in 0..(angle - 1) : Sin(smaller) * den < num * 10000

\* The height at which the corner lines would meet an arc of the corner
\* distance's radius.
ArcStartAtCornerRadius == THREE_POINT_CORNER_DISTANCE * NBA_API_SCALE

\* arc_start_y = np.sqrt(three_pt_radius**2 - corner_dist**2)
arc_start_y ==
    Sqrt((THREE_POINT_RADIUS * NBA_API_SCALE) * (THREE_POINT_RADIUS * NBA_API_SCALE)
         - (THREE_POINT_CORNER_DISTANCE * NBA_API_SCALE)
           * (THREE_POINT_CORNER_DISTANCE * NBA_API_SCALE))
\* arc_angle = np.degrees(np.arcsin(arc_start_y / three_pt_radius))
arc_angle == ArcSinDegrees(arc_start_y, THREE_POINT_RADIUS * NBA_API_SCALE)

\* The two corner lines (ax.plot(xs, ys)) and the arc between them.
ThreePointLine ==
    LET three_pt_radius == THREE_POINT_RADIUS * NBA_API_SCALE
        corner_dist == THREE_POINT_CORNER_DISTANCE * NBA_API_SCALE
        baseline == -(BACKBOARD_OFFSET * NBA_API_SCALE) * 100
    IN  [left_corner |-> [xs |-> <<-corner_dist, -corner_dist>>,
                          ys |-> <<baseline, arc_start_y>>],
         right_corner |-> [xs |-> <<corner_dist, corner_dist>>,
                           ys |-> <<baseline, arc_start_y>>],
         three_pt_arc |-> Arc(<<0, 0>>, three_pt_radius * 2, three_pt_radius * 2,
                              arc_angle, 18000 - arc_angle, "solid")]

\* What draw_court(ax) puts on the axes.
draw_court ==
    [ft_circle |-> FreeThrowCircle, three_pt |-> ThreePointLine, limits |-> CourtLimits]

\* Series.min() and Series.max(): nulls are skipped; NaN (None) when no
\* value is left.
NonNull(df, col) == {Val(df.rows[i][col]) : i \in {j \in 1..Length(df) : ~IsNone(df.rows[j][col])}}
SeriesMin(df, col) ==
    IF NonNull(df, col) = {} THEN None
    ELSE Some(CHOOSE v \in NonNull(df, col) : \A w \in NonNull(df, col) : v <= w)
SeriesMax(df, col) ==
    IF NonNull(df, col) = {} THEN None
    ELSE Some(CHOOSE v \in NonNull(df, col) : \A w \in NonNull(df, col) : v >= w)
\* `if lowest - margin < lim[0]: lim[0] = lowest - margin`, likewise above; a
\* comparison with NaN is False.
Widened(lim, lowest, highest, margin) ==
    << IF ~IsNone(lowest) /\ Val(lowest) - margin < lim[1]
       THEN Val(lowest) - margin ELSE lim[1],
       IF ~IsNone(highest) /\ Val(highest) + margin > lim[2]
       THEN Val(highest) + margin ELSE lim[2] >>

\* The limits set to the shots' range and margin, wherever the court's are.
FitToShots(df, limits, margin) ==
    [xlim |-> << IF IsNone(SeriesMin(df, "loc_x")) THEN limits.xlim[1]
                 ELSE Val(SeriesMin(df, "loc_x")) - margin,
                 IF IsNone(SeriesMax(df, "loc_x")) THEN limits.xlim[2]
                 ELSE Val(SeriesMax(df, "loc_x")) + margin >>,
     ylim |-> Widened(limits.ylim, SeriesMin(df, "loc_y"), SeriesMax(df, "loc_y"), margin)]

_adjust_axis_limits(df, limits, margin) ==
    [xlim |-> Widened(limits.xlim, SeriesMin(df, "loc_x"), SeriesMax(df, "loc_x"), margin),
     ylim |-> Widened(limits.ylim, SeriesMin(df, "loc_y"), SeriesMax(df, "loc_y"), margin)]

\* shots_df[shots_df['shot_made'] == True] and == False: the positions kept.
MadeShots(df) == {i \in 1..Length(df) : df.rows[i]["shot_made"] = Some(TRUE)}
MissedShots(df) == {i \in 1..Length(df) : df.rows[i]["shot_made"] = Some(FALSE)}

\* _get_title_with_stats: the numbers of "FG: {made}/{total} ({pct:.1%})".
_get_title_with_stats(df) ==
    LET summary == get_shot_summary(df).value
    IN  [made |-> summary.made_shots, total |-> summary.total_shots,
         pct |-> summary.fg_pct]
\* _add_legend: the numbers of the labels 'Made: N' and 'Missed: N'.
_add_legend(df) ==
    LET summary == get_shot_summary(df).value
    IN  [made_count |-> summary.made_shots, missed_count |-> summary.missed_shots]

\* The axes plot() returns: the court drawn on it, its limits, the rows
\* scattered with marker 'o' and with marker 'X', its title and its legend.
Drawn(df) ==
    [court |-> draw_court,
     limits |-> _adjust_axis_limits(df, draw_court.limits, AxisMargin),
     made_shots |-> MadeShots(df),
     missed_shots |-> MissedShots(df),
     title |-> _get_title_with_stats(df),
     legend |-> _add_legend(df)]

\* Shots inside the court, inside but nearer to a bound than the margin,
\* beyond the bounds on either side, and without coordinates; made, missed
\* or of unknown outcome.
ShotSpots ==
    { <<Some(0), Some(100)>>, <<Some(240), Some(420)>>, <<Some(-400), Some(-70)>>,
      <<Some(300), Some(500)>>, <<None, None>> }
DrawRows ==
    { [BaseRow EXCEPT !.loc_x = spot[1], !.loc_y = spot[2], !.shot_made = m] :
        spot \in ShotSpots, m \in {Some(TRUE), Some(FALSE), None} }

InitDraw ==
    /\ table \in {Frame(REQUIRED_COLUMNS, rows) : rows \in SeqsUpTo(DrawRows, MaxShots)}
    /\ file = NoFile
    /\ call = NoCall
    /\ ret = NoRet
    /\ NoApiClient
    /\ chart = [columns |-> SeqToSet(REQUIRED_COLUMNS), _fig |-> None, _ax |-> None]
    /\ figures = <<>>
    /\ disk = NoDisk

\* chart = ShotChart(table); fig, ax = chart.plot(): ret describes ax.
DrawPlot ==
    /\ call = NoCall
    /\ call' = [op |-> "plot", ax |-> None]
    /\ ret' = Returned(Drawn(table))
    /\ chart' = plot(chart, figures, None).chart
    /\ figures' = plot(chart, figures, None).figures
    /\ UNCHANGED <<table, file, api, disk>>

NextDraw == DrawPlot
SpecDraw == InitDraw /\ [][NextDraw]_vars

\* C23: after plot() the limits hold every shot that has coordinates with 30
\* units to spare on each side, and are nowhere inside the court's default
\* bounds x -260..260, y -50..440.
C23_NoShotClipped ==
    (call.op = "plot" /\ ret.kind = "return") =>
        /\ \A i \in 1..Length(table) :
              /\ ~IsNone(table.rows[i]["loc_x"]) =>
                    /\ ret.value.limits.xlim[1] <= Val(table.rows[i]["loc_x"]) - 30
                    /\ ret.value.limits.xlim[2] >= Val(table.rows[i]["loc_x"]) + 30
              /\ ~IsNone(table.rows[i]["loc_y"]) =>
                    /\ ret.value.limits.ylim[1] <= Val(table.rows[i]["loc_y"]) - 30
                    /\ ret.value.limits.ylim[2] >= Val(table.rows[i]["loc_y"]) + 30
        /\ ret.value.limits.xlim[1] <= -260 /\ ret.value.limits.xlim[2] >= 260
        /\ ret.value.limits.ylim[1] <= -50 /\ ret.value.limits.ylim[2] >= 440
\* One shot far right and beyond half court: the limits went out to it on
\* those sides and stayed the court's on the others.
C23_Witness ==
    /\ call.op = "plot" /\ ret.kind = "return"
    /\ Length(table) = 1
    /\ table.rows[1]["loc_x"] = Some(300) /\ table.rows[1]["loc_y"] = Some(500)
    /\ ret.value.limits = [xlim |-> <<-260, 330>>, ylim |-> <<-50, 530>>]

\* C30: on the axes plot() returns, the legend's 'Made: N' is the number of
\* shots drawn with the made marker, its 'Missed: N' the number drawn with
\* the missed marker, and the title's made/total are that made count over
\* the number of shots drawn.
C30_TextAgreesWithMarkers ==
    (call.op = "plot" /\ ret.kind = "return") =>
        /\ ret.value.legend.made_count = Cardinality(ret.value.made_shots)
        /\ ret.value.legend.missed_count = Cardinality(ret.value.missed_shots)
        /\ ret.value.title.made = Cardinality(ret.value.made_shots)
        /\ ret.value.title.total =
              Cardinality(ret.value.made_shots) + Cardinality(ret.value.missed_shots)

\* The side of its centre an arc lies on: angles from 0 to 180 degrees have
\* a sine of at least 0, those from 180 to 360 of at most 0.
Above(arc) == 0 <= arc.theta1 /\ arc.theta1 < arc.theta2 /\ arc.theta2 <= 180
Below(arc) == 180 <= arc.theta1 /\ arc.theta1 < arc.theta2 /\ arc.theta2 <= 360
\* The two arcs are the halves of one circle of radius 60 centred at (0, 150).
HalvesOfFreeThrowCircle(arcs) ==
    /\ Len(arcs) = 2
    /\ \A k \in 1..2 : arcs[k].center = <<0, 150>> /\ arcs[k].width = 120
                       /\ arcs[k].height = 120
                       /\ arcs[k].theta2 - arcs[k].theta1 = 180
    /\ \E k \in 1..2 : Above(arcs[k])
    /\ \E k \in 1..2 : Below(arcs[k])

\* C24 as claimed: the free-throw circle is two half-arcs centred at y = 150;
\* the half below the centre (toward the basket at y = 0) is solid and the
\* half above it (toward half court) is dashed.
C24_NearHalfSolid ==
    (call.op = "plot" /\ ret.kind = "return") =>
        /\ HalvesOfFreeThrowCircle(ret.value.court.ft_circle)
        /\ \A k \in 1..2 :
              /\ Below(ret.value.court.ft_circle[k])
                    => ret.value.court.ft_circle[k].linestyle = "solid"
              /\ Above(ret.value.court.ft_circle[k])
                    => ret.value.court.ft_circle[k].linestyle = "dashed"
\* C24 amended: the free-throw circle is two half-arcs centred at y = 150;
\* the half above the centre (away from the basket, toward half court) is
\* solid and the half below it (toward the basket at y = 0) is dashed.
C24_FarHalfSolid ==
    (call.op = "plot" /\ ret.kind = "return") =>
        /\ HalvesOfFreeThrowCircle(ret.value.court.ft_circle)
        /\ \A k \in 1..2 :
              /\ Above(ret.value.court.ft_circle[k])
                    => ret.value.court.ft_circle[k].linestyle = "solid"
              /\ Below(ret.value.court.ft_circle[k])
                    => ret.value.court.ft_circle[k].linestyle = "dashed"
\* A chart was plotted: its court has a solid arc from 0 to 180 degrees and
\* a dashed one from 180 to 360 around (0, 150).
C24_Witness ==
    /\ call.op = "plot" /\ ret.kind = "return"
    /\ chart._fig = Some(1)
    /\ ret.value.court.ft_circle[1] = Arc(<<0, 150>>, 120, 120, 0, 180, "solid")
    /\ ret.value.court.ft_circle[2] = Arc(<<0, 150>>, 120, 120, 180, 360, "dashed")

\* |a - b| <= tolerance
Near(a, b, tolerance) == a - b <= tolerance /\ b - a <= tolerance
\* The three-point line as drawn: the arc of radius 237.5 around the basket
\* from the sweep angle to 180 degrees minus it, the corner lines at
\* x = -220 and x = +220 from the baseline y = -40 up to the arc's start, and
\* the arc's ends (radius times the sine of its end angles) at that height.
\* Lengths are in hundredths of a unit, angles in hundredths of a degree.
ThreePointShape(line) ==
    /\ line.three_pt_arc.center = <<0, 0>>
    /\ line.three_pt_arc.width = 47500 /\ line.three_pt_arc.height = 47500
    /\ line.three_pt_arc.theta2 = 18000 - line.three_pt_arc.theta1
    /\ line.left_corner.xs = <<-22000, -22000>>
    /\ line.right_corner.xs = <<22000, 22000>>
    /\ line.left_corner.ys[1] = -4000 /\ line.right_corner.ys[1] = -4000
    /\ line.left_corner.ys[2] = line.right_corner.ys[2]
    /\ Near((23750 * Sin(line.three_pt_arc.theta1)) \div 10000,
            line.left_corner.ys[2], 5)
    /\ Near(line.left_corner.ys[2] * line.left_corner.ys[2] + 22000 * 22000,
            23750 * 23750, 23750)

\* C25 as claimed: the corner lines end, and the arc starts, at about 89.9
\* units, and the sweep angle is about 22.46 degrees; the arc is symmetric
\* and the corner lines run at x = -220 and x = +220 from y = -40 up to the
\* arc's ends.
C25_ArcStartsAt899 ==
    (call.op = "plot" /\ ret.kind = "return") =>
        /\ ThreePointShape(ret.value.court.three_pt)
        /\ Near(ret.value.court.three_pt.left_corner.ys[2], 8990, 5)
        /\ Near(ret.value.court.three_pt.three_pt_arc.theta1, 2246, 5)
\* C25 amended: the corner lines end, and the arc starts, at
\* sqrt(237.5^2 - 220.0^2), about 89.48 units, and the sweep angle is the
\* arcsine of that over 237.5, about 22.13 degrees; the arc is symmetric and
\* the corner lines run at x = -220 and x = +220 from y = -40 up to the
\* arc's ends.
C25_ArcStartsAt8948 ==
    (call.op = "plot" /\ ret.kind = "return") =>
        /\ ThreePointShape(ret.value.court.three_pt)
        /\ Near(ret.value.court.three_pt.left_corner.ys[2], 8948, 1)
        /\ Near(ret.value.court.three_pt.three_pt_arc.theta1, 2213, 5)
\* A chart was plotted: the right corner line of its court goes from
\* (220, -40) up to 89.47 units, rounded down.
C25_Witness ==
    /\ call.op = "plot" /\ ret.kind = "return"
    /\ chart._fig = Some(1)
    /\ ret.value.court.three_pt.right_corner =
          [xs |-> <<22000, 22000>>, ys |-> <<-4000, 8947>>]

(***************************************************************************)
(* The retry loop and the throttle, statement by statement, against the    *)
(* clock.  call holds the request in progress: where it is in the loop,    *)
(* the attempt (0-based), the answers it got and the backoffs it slept.    *)
(* sent holds the outbound calls of that request and the last one made     *)
(* before it, each with the time it was issued.  The endpoint takes time   *)
(* to answer and the caller lets time pass between two requests; a sleep   *)
(* lasts as long as it was asked to.                                       *)
(***************************************************************************)
MaxDelay == 2      \* the largest request_delay a client is built with, in seconds
MaxElapse == 2     \* the longest an endpoint takes to answer, or a caller idles
MaxClock == 6      \* no new request is started after this many seconds

ServerError == Failure(<<"5","0","0">>)
\* What the endpoint answers to one attempt.
RetryAnswers == {NoShots, Answer(<<>>), TimedOut, ServerError, RateLimited}

\* time.sleep(seconds)
Sleep(now, seconds) == now + seconds

\* A throttle that stamps the time and never waits.
RateLimitNeverSleeps(self, now) ==
    [self |-> [self EXCEPT !._last_request_time = now], now |-> now]

\* _rate_limit at time now: the client and the time after it.
_rate_limit(self, now) ==
    LET elapsed == now - self._last_request_time
        woke == IF elapsed < self.request_delay
                THEN Sleep(now, self.request_delay - elapsed)
                ELSE now
    IN  [self |-> [self EXCEPT !._last_request_time = woke], now |-> woke]

InitRetry ==
    /\ table = EmptyFrame
    /\ file = NoFile
    /\ call = NoCall
    /\ ret = NoRet
    /\ client \in [use_cache : {FALSE}, request_delay : 0..MaxDelay,
                   _last_request_time : {0}]
    /\ cache = {}
    /\ sent = <<>>
    /\ history = <<>>
    /\ static = NoStatic
    /\ clock = MaxDelay
    /\ NoShotChart

InRequest == call.op = "_api_request_with_retry" /\ call.pc # "done"

\* _api_request_with_retry is entered: last_error = None, attempt = 0.
Request ==
    /\ ~InRequest
    /\ clock < MaxClock
    /\ \E idle \in 0..MaxElapse : clock' = clock + idle
    /\ call' = [op |-> "_api_request_with_retry", pc |-> "_rate_limit",
                attempt |-> 0, last_error |-> None, answers |-> <<>>,
                slept |-> <<>>]
    /\ ret' = NoRet
    /\ sent' = IF sent = <<>> THEN <<>> ELSE <<sent[Len(sent)]>>
    /\ UNCHANGED <<table, file, client, cache, history, static, charting>>

\* self._rate_limit()
RateLimit ==
    /\ InRequest /\ call.pc = "_rate_limit"
    /\ client' = _rate_limit(client, clock).self
    /\ clock' = _rate_limit(client, clock).now
    /\ call' = [call EXCEPT !.pc = "endpoint"]
    /\ UNCHANGED <<table, file, ret, cache, sent, history, static, charting>>

\* The request is over with result r after this answer.
Leave(r, answer) ==
    /\ ret' = r
    /\ call' = [call EXCEPT !.pc = "done", !.answers = Append(@, answer)]

\* endpoint_func(**kwargs, timeout=API_TIMEOUT).get_data_frames() and what
\* the loop does with the answer or the exception.
Endpoint ==
    /\ InRequest /\ call.pc = "endpoint"
    /\ sent' = Append(sent, [at |-> clock])
    /\ \E answer \in RetryAnswers, took \in 0..MaxElapse :
        /\ clock' = clock + took
        /\ IF answer.ok
           THEN Leave(Returned(IF Len(answer.frames) > 0 THEN answer.frames[1]
                               ELSE EmptyDataFrame), answer)
           ELSE IF LooksRateLimited(answer.error)
           THEN Leave(Raised("RateLimitError",
                             [text |-> "API rate limit hit",
                              last_error |-> answer.error]), answer)
           ELSE IF call.attempt < API_RETRY_COUNT - 1
           THEN /\ call' = [call EXCEPT !.pc = "sleep",
                                        !.last_error = Some(answer.error),
                                        !.answers = Append(@, answer)]
                /\ UNCHANGED ret
           ELSE Leave(Raised("NBAApiError",
                             [text |-> "API request failed after {API_RETRY_COUNT} attempts",
                              last_error |-> answer.error]), answer)
    /\ UNCHANGED <<table, file, client, cache, history, static, charting>>

\* time.sleep(API_RETRY_DELAY * (attempt + 1)), then the next attempt.
Backoff ==
    /\ InRequest /\ call.pc = "sleep"
    /\ clock' = Sleep(clock, RetryDelay(call.attempt))
    /\ call' = [call EXCEPT !.pc = "_rate_limit", !.attempt = @ + 1,
                            !.slept = Append(@, RetryDelay(call.attempt))]
    /\ UNCHANGED <<table, file, ret, client, cache, sent, history, static, charting>>

NextRetry == Request \/ RateLimit \/ Endpoint \/ Backoff
SpecRetry == InitRetry /\ [][NextRetry]_vars
\* The throttle's sleep, the endpoint's timeout and the backoff's sleep all
\* come to an end.
SpecRetryFair ==
    SpecRetry /\ WF_vars(RateLimit) /\ WF_vars(Endpoint) /\ WF_vars(Backoff)

\* The request is over.
Finished == call.op = "_api_request_with_retry" /\ call.pc = "done"
\* The attempt that got this answer ends the request at once.
Ends(answer) == answer.ok \/ LooksRateLimited(answer.error)
\* What holds of a request at every point of the loop.
C26_Loop ==
    (call.op = "_api_request_with_retry") =>
        /\ call.attempt < API_RETRY_COUNT
        /\ Len(call.answers) <= API_RETRY_COUNT
        /\ Len(call.answers) = IF call.pc \in {"_rate_limit", "endpoint"}
                               THEN call.attempt ELSE call.attempt + 1
        /\ \A k \in 1..Len(call.answers) :
               Ends(call.answers[k]) => k = Len(call.answers) /\ Finished
        /\ Len(call.slept) = IF call.pc \in {"sleep", "done"}
                             THEN Len(call.answers) - 1 ELSE Len(call.answers)
        /\ \A k \in 1..Len(call.slept) : call.slept[k] = API_RETRY_DELAY * k
        /\ Finished =>
              LET last == call.answers[Len(call.answers)]
              IN  /\ last.ok => ret.kind = "return"
                  /\ (~last.ok /\ LooksRateLimited(last.error)) =>
                        ret.kind = "raise" /\ ret.exc = "RateLimitError"
                  /\ ~Ends(last) =>
                        /\ Len(call.answers) = API_RETRY_COUNT
                        /\ ret.kind = "raise" /\ ret.exc = "NBAApiError"
                        /\ ret.msg.last_error = last.error
                  /\ RetryLoop(call.answers, 0) =
                        [outcome |-> ret, attempts |-> Len(call.answers),
                         slept |-> call.slept]
\* A backoff lets at least its delay pass and leads to the next attempt's
\* throttle.
C26_BackoffStep ==
    (InRequest /\ call.pc = "sleep" /\ call' # call) =>
        /\ clock' - clock >= API_RETRY_DELAY * Len(call.answers)
        /\ call'.pc = "_rate_limit"
\* C26: a request makes at most API_RETRY_COUNT = 3 attempts; the first
\* successful attempt returns with no attempt after it; after the k-th
\* failed attempt that is neither the last nor a rate limit it sleeps
\* API_RETRY_DELAY x k, and it never sleeps after the last attempt; a failure
\* that is not a rate limit is retried until 3 attempts are made, and then
\* NBAApiError is raised with the last attempt's error; the one-call
\* function the client's operations use comes to the same result; and every
\* request that is started comes to an end.
C26_BoundedRetryWithBackoff ==
    /\ []C26_Loop
    /\ [][C26_BackoffStep]_vars
    /\ (InRequest ~> Finished)
\* Three attempts failed, the first and the last differently; the request
\* slept 1 s and 2 s between them and raised NBAApiError with the last error.
C26_Witness ==
    /\ Finished
    /\ Len(call.answers) = API_RETRY_COUNT
    /\ call.answers[1] = TimedOut /\ call.answers[3] = ServerError
    /\ call.slept = <<API_RETRY_DELAY, 2 * API_RETRY_DELAY>>
    /\ ret = Raised("NBAApiError",
                    [text |-> "API request failed after {API_RETRY_COUNT} attempts",
                     last_error |-> ServerError.error])
    /\ Len(sent) >= API_RETRY_COUNT

\* The time of the outbound call before the next one; the client's initial
\* _last_request_time when it has made none.
PreviousCall == IF sent = <<>> THEN 0 ELSE sent[Len(sent)].at
\* Every outbound call is about to be made at the time the throttle stamped,
\* and any two consecutive ones are at least request_delay apart.
C27_Separated ==
    /\ (InRequest /\ call.pc = "endpoint") =>
           /\ client._last_request_time = clock
           /\ clock - PreviousCall >= client.request_delay
    /\ \A i \in 1..(Len(sent) - 1) :
           sent[i + 1].at - sent[i].at >= client.request_delay
\* An outbound call is made only from the throttle's exit, the throttle lets
\* time pass only when less than request_delay has passed since the call
\* before, and _last_request_time does not go back.
C27_Step ==
    /\ (InRequest' /\ call'.pc = "endpoint") =>
           InRequest /\ call.pc \in {"_rate_limit", "endpoint"}
    /\ Len(sent') > Len(sent) =>
           /\ call.pc = "endpoint"
           /\ sent'[Len(sent')].at = client._last_request_time
    /\ (InRequest /\ call.pc = "_rate_limit" /\ clock' > clock) =>
           clock - PreviousCall < client.request_delay
    /\ client'._last_request_time >= client._last_request_time
\* C27: the throttle runs before every outbound call, each retry attempt
\* included: two consecutive outbound calls of a client are at least
\* request_delay apart, the throttle sleeps only when less than
\* request_delay has passed since the call before, and _last_request_time
\* never decreases.
C27_ThrottleSeparatesCalls == []C27_Separated /\ [][C27_Step]_vars
\* A retry whose backoff was shorter than request_delay: the throttle slept
\* the rest, and the second attempt went out request_delay after the first.
C27_Witness ==
    /\ InRequest
    /\ client.request_delay = MaxDelay
    /\ MaxDelay > API_RETRY_DELAY
    /\ call.attempt = 1 /\ call.slept = <<API_RETRY_DELAY>>
    /\ Len(sent) = 2
    /\ sent[2].at - sent[1].at = client.request_delay

\* The cache directory holds a file under this name that does not parse.
Corrupt(files, path) == HasFile(files, path) /\ ~FileAt(files, path).valid
\* What holds of each get_game_shots call: h is its record, path the name of
\* its cache file.
C28_Call(h, path) ==
    \* written only after a successful remote fetch
    /\ cache' # cache => h.ret.kind = "return" /\ h.requests >= 1
    \* read before any remote request
    /\ client.use_cache => h.looked = <<path>>
    /\ (client.use_cache /\ HasFile(cache, path) /\ FileAt(cache, path).valid) =>
           h.requests = 0
    \* a failed call leaves the directory as it was
    /\ h.ret.kind = "raise" =>
           /\ cache' = cache
           /\ h.ret.exc \in {"NBAApiError", "GameNotFoundError"}
    \* and the same call made next asks the remote API again
    /\ ( /\ Len(history) > 0
         /\ history[Len(history)].call = h.call
         /\ history[Len(history)].ret.kind = "raise" ) => h.requests >= 1
    \* a file that does not parse is a miss: the call goes to the remote API
    \* and comes to what it comes to on an empty directory
    /\ (client.use_cache /\ Corrupt(cache, path)) =>
           /\ h.requests >= 1
           /\ h.ret = get_game_shots(client, {}, static.teams, h.call.game_id,
                                     h.call.team_id, h.answered, TRUE).ret
\* C28: a cache entry is written only after a successful remote fetch and
\* read before any remote request; a get_game_shots call that fails (API
\* error, rate limit, or no shots) leaves the cache directory unchanged, so
\* the next identical call issues a remote request again; a cache file that
\* does not parse as JSON is a miss and leads to a remote request, not to an
\* error.
C28_CacheWrittenOnSuccessOnly ==
    [][ (Len(history') > Len(history) /\ call'.op = "get_game_shots") =>
            C28_Call(history'[Len(history')], EntryName(call')) ]_vars
\* A first call left a file that does not parse; the same call again missed,
\* sent one request, was rate-limited and left the file as it was.
C28_Witness ==
    /\ client.use_cache
    /\ Len(history) = 2
    /\ history[1].call.op = "get_game_shots" /\ history[2].call = history[1].call
    /\ history[1].ret.kind = "return" /\ history[1].requests = 1
    /\ history[2].ret.kind = "raise" /\ history[2].requests = 1
    /\ history[2].looked = <<EntryName(history[2].call)>>
    /\ Corrupt(cache, EntryName(history[2].call))

\* The endpoint's last answer to the call held shots.
FetchedShots(h) ==
    /\ h.requests >= 1
    /\ h.answered[h.requests].ok
    /\ Len(h.answered[h.requests].frames) > 0
    /\ ~IsEmpty(h.answered[h.requests].frames[1])
\* The cache keys of the calls made here.
GameShotsKeys ==
    { <<"g","a","m","e","_","s","h","o","t","s","_">> \o Game1 \o <<"_">> \o TeamOrAll(t) :
        t \in TeamArgs }
\* What holds of each get_game_shots call, h being its record.
C29_Fetch(h) ==
    \* whatever became of the cache file, the fetched table is returned
    /\ FetchedShots(h) =>
           h.ret = Returned(_transform_shot_data(h.answered[h.requests].frames[1],
                                                 static.teams))
    \* with caching off nothing is read and nothing written
    /\ ~client.use_cache =>
           /\ h.requests >= 1
           /\ h.looked = <<>>
           /\ cache' = cache
    \* the lookup right after clear_cache misses
    /\ (Len(history) > 0 /\ history[Len(history)].call.op = "clear_cache") =>
           h.requests >= 1
\* What holds of each clear_cache call.
C29_Clear ==
    /\ ret' = Returned(Cardinality(cache))
    /\ cache' = {}
    /\ history'[Len(history')].requests = 0
    /\ \A key \in GameShotsKeys : _load_from_cache(client, cache', key) = None
\* C29: the cache has no correctness dependency: a failure while writing a
\* cache file is swallowed and the fetch still returns the fetched table;
\* with use_cache=False saving writes nothing and loading always misses, so
\* every call issues a remote request; clear_cache() returns the number of
\* files deleted and after it every lookup misses.
C29_CacheIsOptional ==
    [][ Len(history') > Len(history) =>
           /\ call'.op = "get_game_shots" => C29_Fetch(history'[Len(history')])
           /\ call'.op = "clear_cache" => C29_Clear ]_vars
\* A fetch got a shot whose period is null: the dump of its table failed half
\* way, the call returned the table all the same, and clear_cache then
\* deleted the one truncated file it found.
C29_Witness ==
    /\ client.use_cache
    /\ Len(history) = 2
    /\ history[1].call.op = "get_game_shots"
    /\ history[1].answered = <<ShotWithoutPeriod>>
    /\ history[1].ret.kind = "return" /\ Len(history[1].ret.value.rows) = 1
    /\ history[1].kept = {}
    /\ history[2].call.op = "clear_cache"
    /\ history[2].ret = Returned(1)
    /\ cache = {}
\* With caching off, a call on a directory that holds its key's file sent a
\* request and left the directory alone.
C29_WitnessDisabled ==
    /\ ~client.use_cache
    /\ Len(history) = 1
    /\ history[1].call = [op |-> "get_game_shots", game_id |-> Game1, team_id |-> None]
    /\ history[1].requests = 1 /\ history[1].ret.kind = "return"
    /\ cache = {LeftByEarlierClient}

====
